---- MODULE Spec2Model ----
(***************************************************************************)
(* NeoMind extensions: the streaming session protocol.                     *)
(*                                                                         *)
(* Two extension instances are modelled, each driven by concurrent host    *)
(* threads:                                                                *)
(*   - YoloVideoProcessor (extensions/yolo-video): the stateful engine, a  *)
(*     session registry behind the `sessions` mutex and the global        *)
(*     statistics behind the `stats` mutex;                                *)
(*   - ImageAnalyzer (extensions/image-analyzer): the stateless engine,    *)
(*     whose statistics sit behind one mutex.                              *)
(*                                                                         *)
(* A call is a sequence of atomic steps, cut where the code takes or       *)
(* releases a mutex; a mutex guard is released where Rust drops it (an     *)
(* explicit drop, or the end of the function).  Wall-clock readings        *)
(* (created_at, last_activity, timestamp_ms) and the float `fps` are left  *)
(* out: no step of the code branches on them.  Confidence values are kept  *)
(* in hundredths (0.6 is 60).                                              *)
(***************************************************************************)
EXTENDS Integers, Sequences, FiniteSets, TLC

\* ---------------------------------------------------------------- bounds
Threads == {"t1", "t2"}
NoThread == "none"
\* Session ids the callers of the main specification use.
Ids == {"A", "B"}
\* Session ids of the capacity scenario (one more than the declared limit).
CapIds == {"s1", "s2", "s3", "s4", "s5", "s6"}
\* The capacity scenario is the sequential one of the specification: one caller.
CapThreads == {"t1"}
NoId == "-"
\* The chunk.sequence values a producer assigns.
ChunkSequences == {1, 2}
\* process_session_chunk calls are issued while total_frames_processed is below this.
MaxFrames == 2
\* init_session calls are issued while sessions_created is below this.
MaxCreated == 2
\* The same, in the capacity scenario.
CapMaxCreated == 6
\* Elapsed milliseconds a call to run_yolo_detection may measure.
ElapsedMs == {0, 1}

\* ------------------------------------------------- yolo-video: constants
\* stream_capability().max_concurrent_sessions
MaxConcurrentSessions == 5
\* stream_capability().max_chunk_size, 5 * 1024 * 1024
YoloMaxChunkSize == 5242880

\* supported_data_types of stream_capability; a video type is kept as its codec.
YoloSupportedDataTypes ==
    { [variant |-> "Image", detail |-> "jpeg"], [variant |-> "Image", detail |-> "png"],
      [variant |-> "Video", detail |-> "h264"], [variant |-> "Video", detail |-> "h265"] }

\* common_objects of run_yolo_detection, in order (class_id is the index).
CommonObjects == <<"person", "car", "truck", "bus", "bicycle", "dog", "cat">>

\* VideoConfig::default(): every field its type's default.
DefaultConfig ==
    [confidence_threshold |-> 0, max_objects |-> 0, target_fps |-> 0,
     enable_tracking |-> FALSE]

\* Configuration payloads of StreamSession.config: JSON null, an object that
\* lacks a field, and a well-formed object.
NullPayload == [kind |-> "null", value |-> DefaultConfig]
PartialPayload == [kind |-> "partial", value |-> DefaultConfig]
FullPayload ==
    [kind |-> "full",
     value |-> [confidence_threshold |-> 62, max_objects |-> 2, target_fps |-> 30,
                enable_tracking |-> TRUE]]
ConfigPayloads == {NullPayload, FullPayload}

\* Mutant: whatever the payload, the session gets an explicit configuration.
ParseConfigNeverDefault(payload) == FullPayload.value

\* serde_json::from_value(session.config.clone()).unwrap_or_default()
ParseConfig(payload) ==
    IF payload.kind = "full" THEN payload.value ELSE DefaultConfig

VideoSessionCounted(config) ==
    [frame_count |-> 1, total_processing_time_ms |-> 0, total_detections |-> 0,
     last_frame_time |-> "None", config |-> config,
     detected_objects |-> [l \in {} |-> 0]]

\* The VideoSession init_session builds.
NewVideoSession(config) ==
    [frame_count |-> 0, total_processing_time_ms |-> 0, total_detections |-> 0,
     last_frame_time |-> "None", config |-> config,
     detected_objects |-> [l \in {} |-> 0]]

NoSession == NewVideoSession(DefaultConfig)

\* GlobalStats::default()
DefaultStats ==
    [sessions_created |-> 0, active_sessions |-> 0, total_frames_processed |-> 0,
     total_detections |-> 0]

\* StreamDataType: the variants, with the format or codec that tells two apart.
Image(format) == [variant |-> "Image", detail |-> format]
Video(codec) == [variant |-> "Video", detail |-> codec]
Binary == [variant |-> "Binary", detail |-> ""]
Json == [variant |-> "Json", detail |-> ""]

\* DataChunk: the payload is kept as its length and its leading signature bytes.
Chunk(seq, len, magic, dt) ==
    [sequence |-> seq, len |-> len, magic |-> magic, data_type |-> dt]
NoChunk == Chunk(0, 0, "", Binary)
\* Chunks of the main specification: a 1 KiB JPEG frame.
MainChunks == {Chunk(s, 1024, "jpeg", Image("jpeg")) : s \in ChunkSequences}

\* The ordering scenario: one caller, one session, and sequence numbers it
\* may supply in any order; chunks are sent while fewer than OrderMaxFrames
\* results have been produced.
OrderThreads == {"t1"}
OrderIds == {"A"}
OrderSequences == {1, 2, 3}
OrderMaxFrames == 3
OrderChunks == {Chunk(s, 1024, "jpeg", Image("jpeg")) : s \in OrderSequences}

\* The command scenario: one host thread calls the four extensions, one call
\* at a time; each extension is given names it declares, a name another
\* extension declares and a name none declares. The clock starts at
\* ClockStart and passes through ClockInstants.
CommandThreads == {"t1"}
CommandIds == {"A"}
YoloCommandNames == {"get_session_info", "reset_stats", "unknown_command"}
ImgCommandNamesHost == {"reset_stats", "refresh", "unknown_command"}
TplCommandNames == {"example_command", "get_session_info", "unknown_command"}
WxCommandNames == {"query_weather", "refresh", "forecast_summary", "example_command",
                   "unknown_command"}
CommandChunks == {Chunk(1, 1024, "jpeg", Image("jpeg"))}
ClockStart == 1000 * 1000000
ClockInstants == {ClockStart + 60250}
TickMs == {60250}

\* The session info scenario: two callers open, feed, close and query one
\* session; queries also name an id that is never opened, or no id.
InfoIds == {"A"}
InfoQueryIds == {"A", "B", NoId}

\* The configuration scenario: sessions are opened with a missing (null), a
\* malformed (a field lacking) and a well-formed configuration.
AllConfigPayloads == {NullPayload, PartialPayload, FullPayload}

\* The chunk validation scenario: a frame within the limits, a JPEG frame one
\* byte over max_chunk_size, and a JSON document.
ValidationChunks ==
    { Chunk(1, 1024, "jpeg", Image("jpeg")),
      Chunk(1, YoloMaxChunkSize + 1, "jpeg", Image("jpeg")),
      Chunk(1, 1024, "", Json) }

\* The byte count scenario: every chunk carries PayloadLen bytes.
PayloadLen == 2048
ByteChunks == {Chunk(1, PayloadLen, "jpeg", Image("jpeg"))}

\* The loading scenario: the instances the host creates.
MaxInstances == 2

\* The collection scenario: two callers ask an extension for its metrics
\* while the clock moves through the instants below; the extension was
\* created with any of its configurations.
CollectionInstants ==
    {ClockStart + 250, ClockStart + 1000, ClockStart + 59000, ClockStart + 60000}

\* The forecast scenario: the days a caller asks for.
ForecastDays == {-1, 0, 1, 4}

\* The city scenario: the extension is created with a default city from
\* every name of at most MaxCityLen bytes over CityBytes (A, z and the
\* space), and four real names, two of which hash above 2^31.
MaxCityLen == 4
CityBytes == {32, 65, 122}

\* The metrics scenario: two callers share one session of the stateful
\* engine, one caller drives the stateless engine.
MetricsIds == {"A"}
MetricsImgThreads == {"t1"}
MetricsChunks == {Chunk(1, 1024, "jpeg", Image("jpeg"))}
MetricsElapsedMs == {1}

\* --------------------------------------------------------------- helpers
Min(a, b) == IF a < b THEN a ELSE b

RECURSIVE SumOver(_, _)
\* Sum of f[x] for x in S.
SumOver(f, S) ==
    IF S = {} THEN 0
    ELSE LET x == CHOOSE y \in S : TRUE IN f[x] + SumOver(f, S \ {x})

\* Mutant: a lock that excludes nobody.
LockNeverBlocks(holder) == TRUE

\* std::sync::Mutex::lock(): the caller proceeds only when nobody holds it.
LockFree(holder) == holder = NoThread

\* Mutant: the key is never found, so an insert overwrites.
ContainsKeyNever(m, id) == FALSE

\* HashMap::contains_key
ContainsKey(m, id) == id \in DOMAIN m

\* Mutant: a length that counts one record too many.
LenOffByOne(m) == Cardinality(DOMAIN m) + 1

\* A float quotient a / b, kept exact as the pair of its terms.
Ratio(a, b) == [num |-> a, den |-> b]

\* Mutant: the read takes the value and leaves the default behind.
ReadGuardTakes(v) == [k \in DOMAIN v |-> 0]

\* `let stats = self.stats.lock().unwrap()`: the guard is not `mut`, so what
\* it protects is after the reads what it was before.
ReadGuard(v) == v

\* HashMap::len
SessionsLen(m) == Cardinality(DOMAIN m)

\* Mutant: an insertion evicts every other entry.
InsertEvicts(m, id, v) == [k \in {id} |-> v]

\* HashMap::insert
Insert(m, id, v) == [k \in DOMAIN m \cup {id} |-> IF k = id THEN v ELSE m[k]]

\* Mutant: the record lingers after its removal.
RemoveKeeps(m, id) == m

\* HashMap::remove: the map without the key.
Remove(m, id) == [k \in DOMAIN m \ {id} |-> m[k]]

\* ------------------------------------------------------------ yolo state
VARIABLES
    sessions,       \* the registry: id -> VideoSession
    stats,          \* GlobalStats
    sessionsLock,   \* holder of the sessions mutex
    statsLock,      \* holder of the stats mutex
    pc,             \* where each host thread is in its call
    arg,            \* the call's arguments
    local,          \* the call's local variables
    ret,            \* what the thread's last call returned
    closed,         \* history: the last successful registry operation on the id was close_session
    accepted,       \* history: chunk calls that found the session, since its init_session
    counted,        \* history: the session's frame counter right after the thread's increment
    retired         \* history: the frame counters of the sessions closed so far, summed

yoloVars ==
    <<sessions, stats, sessionsLock, statsLock, pc, arg, local, ret, closed, accepted,
      counted, retired>>

\* ------------------------------------------------- image-analyzer state
VARIABLES
    imgStats,       \* ImageAnalyzerStats
    imgLock,        \* holder of the stats mutex
    ipc,            \* where each host thread is in its call
    iarg,           \* the call's arguments
    ilocal,         \* the call's local variables
    iret,           \* what the thread's last call returned
    imgAccepted     \* history: chunks that passed the data type check, since the last reset

imgVars == <<imgStats, imgLock, ipc, iarg, ilocal, iret, imgAccepted>>

\* ---------------------------------------------------- stream histories
VARIABLES
    fed,            \* history: per session id, the chunk.sequence of each result, in order
    produced        \* history: per session id, the output_sequence of each result, in order

orderVars == <<fed, produced>>

\* --------------------------------------- template and weather-forecast
VARIABLES
    now,            \* SystemTime::now(), in milliseconds since the epoch
    tplState,       \* TemplateState
    tpc,            \* per thread: where its call on the TemplateExtension stands
    targ,           \* the call's arguments
    tret,           \* what the thread's last call returned
    wxState,        \* WeatherState
    wpc,            \* per thread: where its call on the WeatherExtension stands
    warg,           \* the call's arguments
    wret            \* what the thread's last call returned

\* ------------------------------------------------- library instances
VARIABLES
    instances,      \* the live instances: handle -> the extension made by create
    issued,         \* how many instances create has allocated
    made,           \* history: per handle, the kind of payload it was created from
    destroyed,      \* history: the handles passed to destroy
    fret            \* what the last exported function returned

ffiVars == <<instances, issued, made, destroyed, fret>>

\* ------------------------------ the older weather extension (src/src/lib.rs)
VARIABLES
    overflowChecks, \* the build: TRUE when integer overflow panics, FALSE when it wraps
    oldState,       \* WeatherState of the older implementation
    lastSet,        \* history: the city of the last successful set_city
    oret            \* what the last call on the older extension returned

oldVars == <<overflowChecks, oldState, lastSet, oret>>

tplVars == <<tplState, tpc, targ, tret>>
wxVars == <<wxState, wpc, warg, wret>>
extVars == <<now, tplVars, wxVars, ffiVars, oldVars>>

AllIds == Ids \cup CapIds

NoArg == [op |-> "none", id |-> NoId, payload |-> NullPayload, chunk |-> NoChunk,
          command |-> ""]
NoFrame == [frame_number |-> 0, detections |-> <<>>, processing_time_ms |-> 0]
NoLocal == [session |-> NoSession, detections |-> <<>>, frame |-> NoFrame]
NoSummary == [input_chunks |-> 0, output_chunks |-> 0, input_bytes |-> 0,
              output_bytes |-> 0, errors |-> 0]
NoInfo == [session_id |-> NoId, frame_count |-> 0, total_processing_time_ms |-> 0,
           total_detections |-> 0, detected_objects |-> [l \in {} |-> 0],
           config |-> DefaultConfig]
NoMetrics == [active_sessions |-> 0, total_frames_processed |-> 0,
              avg_fps |-> [num |-> 0, den |-> 1]]
NoRet == [kind |-> "none", op |-> "none", err |-> "", id |-> NoId, input_sequence |-> 0,
          output_sequence |-> 0, data_type |-> "", detections |-> 0,
          summary |-> NoSummary, metrics |-> NoMetrics, what |-> "", info |-> NoInfo]

Ok(op) == [NoRet EXCEPT !.kind = "Ok", !.op = op]

\* Mutant: the failure is swallowed and the call reports success.
ErrSwallowed(op, e, id) == Ok(op)

Err(op, e, id) == [NoRet EXCEPT !.kind = "Err", !.op = op, !.err = e, !.id = id]

\* Mutant: the missing session is reported as a bad argument.
SessionNotFoundAsInvalid(op, id) == Err(op, "InvalidArguments", id)

\* ok_or_else(|| ExtensionError::SessionNotFound(session_id.to_string()))
SessionNotFound(op, id) == Err(op, "SessionNotFound", id)

\* Mutant: the error names no command.
CommandNotFoundUnnamed(r, command) == [r EXCEPT !.kind = "Err", !.err = "CommandNotFound"]

\* Err(ExtensionError::CommandNotFound(command.to_string())), put into the
\* blank result r of the extension that raises it.
CommandNotFound(r, command) ==
    [r EXCEPT !.kind = "Err", !.err = "CommandNotFound", !.what = command]

YoloInit ==
    /\ sessions = [i \in {} |-> NoSession]
    /\ stats = DefaultStats
    /\ sessionsLock = NoThread
    /\ statsLock = NoThread
    /\ pc = [t \in Threads |-> "idle"]
    /\ arg = [t \in Threads |-> NoArg]
    /\ local = [t \in Threads |-> NoLocal]
    /\ ret = [t \in Threads |-> NoRet]
    /\ closed = [i \in AllIds |-> FALSE]
    /\ accepted = [i \in AllIds |-> 0]
    /\ counted = [t \in Threads |-> 0]
    /\ retired = 0

\* A call returns: the thread is idle again and its locals are gone.
Return(t, r) ==
    /\ pc' = [pc EXCEPT ![t] = "idle"]
    /\ arg' = [arg EXCEPT ![t] = NoArg]
    /\ local' = [local EXCEPT ![t] = NoLocal]
    /\ ret' = [ret EXCEPT ![t] = r]

\* --------------------------------------------------------- init_session
\* The host calls init_session; the VideoSession is built before any lock.
InitSessionCall(t, id, payload) ==
    /\ pc[t] = "idle"
    /\ pc' = [pc EXCEPT ![t] = "init_lock"]
    /\ arg' = [arg EXCEPT ![t] = [NoArg EXCEPT !.op = "init_session", !.id = id,
                                                !.payload = payload]]
    /\ local' = [local EXCEPT ![t].session = NewVideoSession(ParseConfig(payload))]
    /\ ret' = [ret EXCEPT ![t] = NoRet]
    /\ UNCHANGED <<sessions, stats, sessionsLock, statsLock, closed, retired, accepted, counted>>
    /\ UNCHANGED <<imgVars, orderVars, extVars>>

\* sessions.lock(); contains_key -> SessionAlreadyExists; insert.
InitSessionLock(t) ==
    /\ pc[t] = "init_lock"
    /\ LockFree(sessionsLock)
    /\ IF ContainsKey(sessions, arg[t].id)
       THEN /\ Return(t, Err("init_session", "SessionAlreadyExists", arg[t].id))
            /\ UNCHANGED <<sessions, sessionsLock, closed, retired, accepted>>
       ELSE /\ sessions' = Insert(sessions, arg[t].id, local[t].session)
            /\ sessionsLock' = t
            /\ closed' = [closed EXCEPT ![arg[t].id] = FALSE]
            /\ accepted' = [accepted EXCEPT ![arg[t].id] = 0]
            /\ pc' = [pc EXCEPT ![t] = "init_stats"]
            /\ UNCHANGED <<arg, local, ret, retired>>
    /\ UNCHANGED <<stats, statsLock, counted>>
    /\ UNCHANGED <<imgVars, orderVars, extVars>>

\* stats.lock(); the counters; both guards drop at the end of the function.
InitSessionStats(t) ==
    /\ pc[t] = "init_stats"
    /\ LockFree(statsLock)
    /\ stats' = [stats EXCEPT !.sessions_created = @ + 1,
                              !.active_sessions = SessionsLen(sessions)]
    /\ sessionsLock' = NoThread
    /\ Return(t, Ok("init_session"))
    /\ UNCHANGED <<sessions, statsLock, closed, retired, accepted, counted>>
    /\ UNCHANGED <<imgVars, orderVars, extVars>>

\* ------------------------------------------------ process_session_chunk
\* confidence of the i-th simulated detection: 0.6 + (i * 0.05).min(0.35)
Confidence(i) == 60 + Min(5 * i, 35)

\* The i-th simulated detection (i counts from 0).
Detection(i) ==
    [id |-> i, label |-> CommonObjects[(i % Len(CommonObjects)) + 1],
     confidence |-> Confidence(i), class_id |-> i % Len(CommonObjects)]

\* run_yolo_detection: (frame_count % 5) + 1 detections, those below the
\* confidence threshold dropped, the rest cut to max_objects.
RunYoloDetection(session) ==
    LET n == (session.frame_count % 5) + 1
        all == [k \in 1..n |-> Detection(k - 1)]
        Keep(d) == d.confidence >= session.config.confidence_threshold
        retained == SelectSeq(all, Keep)
    IN  SubSeq(retained, 1, Min(Len(retained), session.config.max_objects))

\* Mutant: a frame without detections is not counted.
UpdateSessionStatsSkipsEmpty(session, detections, processing_time) ==
    [session EXCEPT !.frame_count = @ + Min(1, Len(detections)),
                    !.total_processing_time_ms = @ + processing_time,
                    !.total_detections = @ + Len(detections),
                    !.last_frame_time = "Some"]

\* Mutant: a frame moves the session's counter by two.
UpdateSessionStatsCountsTwice(session, detections, processing_time) ==
    [session EXCEPT !.frame_count = @ + 2,
                    !.total_processing_time_ms = @ + processing_time,
                    !.total_detections = @ + Len(detections),
                    !.last_frame_time = "Some"]

\* process_frame, "Update session stats".
UpdateSessionStats(session, detections, processing_time) ==
    [session EXCEPT !.frame_count = @ + 1,
                    !.total_processing_time_ms = @ + processing_time,
                    !.total_detections = @ + Len(detections),
                    !.last_frame_time = "Some"]

\* Mutant: only the first detection of a frame is tallied.
TrackObjectsFirst(tally, detections) ==
    IF detections = <<>> THEN tally
    ELSE LET l == Head(detections).label
             n == IF l \in DOMAIN tally THEN tally[l] ELSE 0
         IN  Insert(tally, l, n + 1)

RECURSIVE TrackObjects(_, _)
\* process_frame, "Track object frequency": entry(label).or_insert(0) += 1, in order.
TrackObjects(tally, detections) ==
    IF detections = <<>> THEN tally
    ELSE LET l == Head(detections).label
             n == IF l \in DOMAIN tally THEN tally[l] ELSE 0
         IN  TrackObjects(Insert(tally, l, n + 1), Tail(detections))

\* Mutant: every frame carries the number 0.
FrameResultUnnumbered(session, sequence, detections, processing_time) ==
    [frame_number |-> 0, detections |-> detections,
     processing_time_ms |-> processing_time]

\* The FrameResult process_frame returns.
FrameResultOf(session, sequence, detections, processing_time) ==
    [frame_number |-> sequence, detections |-> detections,
     processing_time_ms |-> processing_time]

\* The StreamResult process_session_chunk returns.
StreamResultOf(chunk, frame) ==
    [Ok("process_session_chunk") EXCEPT
        !.input_sequence = chunk.sequence,
        !.output_sequence = frame.frame_number,
        !.data_type = "json",
        !.detections = Len(frame.detections)]

ProcessSessionChunkCall(t, id, chunk) ==
    /\ pc[t] = "idle"
    /\ pc' = [pc EXCEPT ![t] = "proc_lock"]
    /\ arg' = [arg EXCEPT ![t] = [NoArg EXCEPT !.op = "process_session_chunk",
                                                !.id = id, !.chunk = chunk]]
    /\ ret' = [ret EXCEPT ![t] = NoRet]
    /\ UNCHANGED <<sessions, stats, sessionsLock, statsLock, local, closed, retired, accepted,
                   counted>>
    /\ UNCHANGED <<imgVars, orderVars, extVars>>

\* sessions.lock(); get_mut -> SessionNotFound.
ProcessSessionChunkLock(t) ==
    /\ pc[t] = "proc_lock"
    /\ LockFree(sessionsLock)
    /\ IF ContainsKey(sessions, arg[t].id)
       THEN /\ sessionsLock' = t
            /\ accepted' = [accepted EXCEPT ![arg[t].id] = @ + 1]
            /\ pc' = [pc EXCEPT ![t] = "proc_frame"]
            /\ UNCHANGED <<arg, local, ret>>
       ELSE /\ Return(t, SessionNotFound("process_session_chunk", arg[t].id))
            /\ UNCHANGED <<sessionsLock, accepted>>
    /\ UNCHANGED <<sessions, stats, statsLock, closed, retired, counted>>
    /\ UNCHANGED <<imgVars, orderVars, extVars>>

\* process_frame: the detection and the session's counters.
ProcessFrameStats(t, elapsed) ==
    /\ pc[t] = "proc_frame"
    /\ LET id == arg[t].id
           detections == RunYoloDetection(sessions[id])
           updated == UpdateSessionStats(sessions[id], detections, elapsed)
       IN  /\ sessions' = [sessions EXCEPT ![id] = updated]
           /\ local' = [local EXCEPT ![t].detections = detections,
                                     ![t].frame = [NoFrame EXCEPT
                                                      !.processing_time_ms = elapsed]]
           /\ counted' = [counted EXCEPT ![t] = updated.frame_count]
    /\ pc' = [pc EXCEPT ![t] = "proc_track"]
    /\ UNCHANGED <<stats, sessionsLock, statsLock, arg, ret, closed, retired, accepted>>
    /\ UNCHANGED <<imgVars, orderVars, extVars>>

\* process_frame: the per-label tally, and the FrameResult; then drop(sessions).
ProcessFrameTrack(t) ==
    /\ pc[t] = "proc_track"
    /\ LET id == arg[t].id
       IN  /\ sessions' = [sessions EXCEPT ![id].detected_objects =
                              TrackObjects(@, local[t].detections)]
           /\ local' = [local EXCEPT ![t].frame =
                           FrameResultOf(sessions[id], arg[t].chunk.sequence,
                                         local[t].detections,
                                         local[t].frame.processing_time_ms)]
    /\ sessionsLock' = NoThread
    /\ pc' = [pc EXCEPT ![t] = "proc_stats"]
    /\ UNCHANGED <<stats, statsLock, arg, ret, closed, retired, accepted, counted>>
    /\ UNCHANGED <<imgVars, orderVars, extVars>>

\* Mutant: every chunk also counts as a created session.
ProcessSessionChunkStatsCountsSession(t) ==
    /\ pc[t] = "proc_stats"
    /\ LockFree(statsLock)
    /\ stats' = [stats EXCEPT !.total_frames_processed = @ + 1,
                              !.sessions_created = Min(@ + 1, MaxCreated),
                              !.total_detections = @ + Len(local[t].frame.detections)]
    /\ Return(t, StreamResultOf(arg[t].chunk, local[t].frame))
    /\ counted' = [counted EXCEPT ![t] = 0]
    /\ UNCHANGED <<sessions, sessionsLock, statsLock, closed, retired, accepted>>
    /\ UNCHANGED <<imgVars, extVars>>

\* stats.lock(); the global counters; the result.
ProcessSessionChunkStats(t) ==
    /\ pc[t] = "proc_stats"
    /\ LockFree(statsLock)
    /\ stats' = [stats EXCEPT !.total_frames_processed = @ + 1,
                              !.total_detections = @ + Len(local[t].frame.detections)]
    /\ Return(t, StreamResultOf(arg[t].chunk, local[t].frame))
    /\ counted' = [counted EXCEPT ![t] = 0]
    /\ UNCHANGED <<sessions, sessionsLock, statsLock, closed, retired, accepted>>
    /\ UNCHANGED <<imgVars, extVars>>

\* The consumer of a session's stream notes, result by result, the
\* chunk.sequence that went in and the output_sequence that came out.
ObserveResult(t) ==
    /\ fed' = [fed EXCEPT ![arg[t].id] = Append(@, arg[t].chunk.sequence)]
    /\ produced' = [produced EXCEPT ![arg[t].id] = Append(@, ret'[t].output_sequence)]

\* -------------------------------------------------------- close_session
\* Mutant: the summary counts the chunks that carried a detection.
SessionStatsOfDetected(session) ==
    [input_chunks |-> Min(session.frame_count, session.total_detections),
     output_chunks |-> Min(session.frame_count, session.total_detections),
     input_bytes |-> session.frame_count * 1024,
     output_bytes |-> session.total_detections * 100, errors |-> 0]

\* The SessionStats close_session returns.
SessionStatsOf(session) ==
    [input_chunks |-> session.frame_count, output_chunks |-> session.frame_count,
     input_bytes |-> session.frame_count * 1024,
     output_bytes |-> session.total_detections * 100, errors |-> 0]

CloseSessionCall(t, id) ==
    /\ pc[t] = "idle"
    /\ pc' = [pc EXCEPT ![t] = "close_lock"]
    /\ arg' = [arg EXCEPT ![t] = [NoArg EXCEPT !.op = "close_session", !.id = id]]
    /\ ret' = [ret EXCEPT ![t] = NoRet]
    /\ UNCHANGED <<sessions, stats, sessionsLock, statsLock, local, closed, retired, accepted,
                   counted>>
    /\ UNCHANGED <<imgVars, orderVars, extVars>>

\* sessions.lock(); remove -> SessionNotFound.
CloseSessionLock(t) ==
    /\ pc[t] = "close_lock"
    /\ LockFree(sessionsLock)
    /\ IF ContainsKey(sessions, arg[t].id)
       THEN /\ sessions' = Remove(sessions, arg[t].id)
            /\ local' = [local EXCEPT ![t].session = sessions[arg[t].id]]
            /\ sessionsLock' = t
            /\ closed' = [closed EXCEPT ![arg[t].id] = TRUE]
            /\ retired' = retired + sessions[arg[t].id].frame_count
            /\ pc' = [pc EXCEPT ![t] = "close_stats"]
            /\ UNCHANGED <<arg, ret>>
       ELSE /\ Return(t, SessionNotFound("close_session", arg[t].id))
            /\ UNCHANGED <<sessions, sessionsLock, closed, retired>>
    /\ UNCHANGED <<stats, statsLock, accepted, counted>>
    /\ UNCHANGED <<imgVars, orderVars, extVars>>

\* stats.lock(); active_sessions; the summary; both guards drop at the end.
CloseSessionStats(t) ==
    /\ pc[t] = "close_stats"
    /\ LockFree(statsLock)
    /\ stats' = [stats EXCEPT !.active_sessions = SessionsLen(sessions)]
    /\ sessionsLock' = NoThread
    /\ Return(t, [Ok("close_session") EXCEPT !.summary = SessionStatsOf(local[t].session)])
    /\ UNCHANGED <<sessions, statsLock, closed, retired, accepted, counted>>
    /\ UNCHANGED <<imgVars, orderVars, extVars>>

\* ------------------------------------------------------ produce_metrics
\* avg_fps: total_frames / (total_time / 1000.0), or 0.0 with no time spent.
AvgFps(total_frames, total_time) ==
    IF total_time > 0 THEN Ratio(total_frames * 1000, total_time) ELSE Ratio(0, 1)

\* The three values produce_metrics returns.
MetricsOf(st, m) ==
    LET total_time == SumOver([id \in DOMAIN m |-> m[id].total_processing_time_ms],
                              DOMAIN m)
    IN  [active_sessions |-> SessionsLen(m),
         total_frames_processed |-> st.total_frames_processed,
         avg_fps |-> AvgFps(st.total_frames_processed, total_time)]

ProduceMetricsCall(t) ==
    /\ pc[t] = "idle"
    /\ pc' = [pc EXCEPT ![t] = "metrics_stats"]
    /\ arg' = [arg EXCEPT ![t] = [NoArg EXCEPT !.op = "produce_metrics"]]
    /\ ret' = [ret EXCEPT ![t] = NoRet]
    /\ UNCHANGED <<sessions, stats, sessionsLock, statsLock, local, closed, retired, accepted,
                   counted>>
    /\ UNCHANGED <<imgVars, orderVars, extVars>>

\* stats.lock(), taken first.
ProduceMetricsStats(t) ==
    /\ pc[t] = "metrics_stats"
    /\ LockFree(statsLock)
    /\ statsLock' = t
    /\ pc' = [pc EXCEPT ![t] = "metrics_sessions"]
    /\ UNCHANGED <<sessions, stats, sessionsLock, arg, local, ret, closed, retired, accepted,
                   counted>>
    /\ UNCHANGED <<imgVars, orderVars, extVars>>

\* sessions.lock(), taken while the stats guard is held; the values are read
\* and both guards drop at the end of the function.
ProduceMetricsSessions(t) ==
    /\ pc[t] = "metrics_sessions"
    /\ LockFree(sessionsLock)
    /\ stats' = ReadGuard(stats)
    /\ sessions' = sessions
    /\ statsLock' = NoThread
    /\ Return(t, [Ok("produce_metrics") EXCEPT !.metrics = MetricsOf(stats, sessions)])
    /\ UNCHANGED <<sessionsLock, closed, retired, accepted, counted>>
    /\ UNCHANGED <<imgVars, orderVars, extVars>>

\* ------------------------------------------------------ execute_command
\* The caller's args either carry a session_id string or lack it (NoId).
YoloExecuteCommandCall(t, command, id) ==
    /\ pc[t] = "idle"
    /\ pc' = [pc EXCEPT ![t] = "command"]
    /\ arg' = [arg EXCEPT ![t] = [NoArg EXCEPT !.op = "execute_command",
                                                !.command = command, !.id = id]]
    /\ ret' = [ret EXCEPT ![t] = NoRet]
    /\ UNCHANGED <<sessions, stats, sessionsLock, statsLock, local, closed, retired, accepted,
                   counted>>
    /\ UNCHANGED <<imgVars, orderVars, extVars>>

\* The match on the command name, and the session_id argument.
YoloExecuteCommandMatch(t) ==
    /\ pc[t] = "command"
    /\ IF arg[t].command = "get_session_info"
       THEN IF arg[t].id = NoId
            THEN Return(t, Err("execute_command", "InvalidArguments", NoId))
            ELSE /\ pc' = [pc EXCEPT ![t] = "info_lock"]
                 /\ UNCHANGED <<arg, local, ret>>
       ELSE Return(t, CommandNotFound(Ok("execute_command"), arg[t].command))
    /\ UNCHANGED <<sessions, stats, sessionsLock, statsLock, closed, retired, accepted, counted>>
    /\ UNCHANGED <<imgVars, orderVars, extVars>>

\* Mutant: the info is that of a session just created.
SessionInfoBlank(id, session) == [NoInfo EXCEPT !.session_id = id, !.config = session.config]

\* The JSON object get_session_info builds from the session.
SessionInfoOf(id, session) ==
    [session_id |-> id, frame_count |-> session.frame_count,
     total_processing_time_ms |-> session.total_processing_time_ms,
     total_detections |-> session.total_detections,
     detected_objects |-> session.detected_objects,
     config |-> session.config]

\* get_session_info: sessions.lock(); get -> SessionNotFound; the session's
\* fields; the guard drops as it returns.
GetSessionInfo(t) ==
    /\ pc[t] = "info_lock"
    /\ LockFree(sessionsLock)
    /\ IF ContainsKey(sessions, arg[t].id)
       THEN Return(t, [Ok("execute_command") EXCEPT !.id = arg[t].id,
                                                    !.info = SessionInfoOf(arg[t].id,
                                                                           sessions[arg[t].id])])
       ELSE Return(t, SessionNotFound("execute_command", arg[t].id))
    /\ UNCHANGED <<sessions, stats, sessionsLock, statsLock, closed, retired, accepted, counted>>
    /\ UNCHANGED <<imgVars, orderVars, extVars>>

\* ======================================================= image-analyzer
\* stream_capability().max_chunk_size, 10 * 1024 * 1024
ImgMaxChunkSize == 10485760

\* stream_capability().supported_data_types
ImgSupportedDataTypes == {Image("jpeg"), Image("png"), Image("webp")}

\* process_chunk calls are issued while images_processed is below this.
MaxImages == 2

\* Chunks the callers of the stateless engine send.
ImgDataTypes == {Image("jpeg"), Image("gif"), Video("h264"), Binary, Json}
ImgLens == {50, ImgMaxChunkSize, ImgMaxChunkSize + 1}
ImgChunks ==
    {Chunk(s, n, m, dt) : s \in ChunkSequences, n \in ImgLens, m \in {"jpeg", "other"},
                          dt \in ImgDataTypes}

\* Command names the host sends to execute_command.
ImgCommandNames == {"reset_stats", "analyze"}

\* ImageAnalyzerStats::default()
DefaultImgStats ==
    [images_processed |-> 0, total_processing_time_ms |-> 0, detections_found |-> 0]

NoImgArg == [op |-> "none", chunk |-> NoChunk, command |-> ""]
NoAnalysis == [objects |-> 0, dominant_color |-> "None", estimated_size |-> "None",
               processing_time_ms |-> 0]
NoImgLocal == [result |-> NoAnalysis, seen |-> DefaultImgStats]
NoImgMetrics == [images_processed |-> 0, avg_processing_time_ms |-> [num |-> 0, den |-> 1],
                 total_detections |-> 0]
NoImgRet == [kind |-> "none", op |-> "none", err |-> "", what |-> "",
             input_sequence |-> 0, output_sequence |-> 0, data_type |-> Binary,
             result |-> NoAnalysis, metrics |-> NoImgMetrics]

ImgOk(op) == [NoImgRet EXCEPT !.kind = "Ok", !.op = op]
ImgErr(op, e, what) == [NoImgRet EXCEPT !.kind = "Err", !.op = op, !.err = e, !.what = what]

ImgInit ==
    /\ imgStats = DefaultImgStats
    /\ imgLock = NoThread
    /\ ipc = [t \in Threads |-> "idle"]
    /\ iarg = [t \in Threads |-> NoImgArg]
    /\ ilocal = [t \in Threads |-> NoImgLocal]
    /\ iret = [t \in Threads |-> NoImgRet]
    /\ imgAccepted = 0

ImgReturn(t, r) ==
    /\ ipc' = [ipc EXCEPT ![t] = "idle"]
    /\ iarg' = [iarg EXCEPT ![t] = NoImgArg]
    /\ ilocal' = [ilocal EXCEPT ![t] = NoImgLocal]
    /\ iret' = [iret EXCEPT ![t] = r]

\* -------------------------------------------------------- process_chunk
\* Mutant: no data type is rejected.
TypeAcceptedAll(dt) == TRUE

\* process_chunk, "Validate data type": the match on chunk.data_type.
TypeAccepted(dt) == dt.variant = "Image" \/ dt.variant = "Binary"

\* detect_objects: one mock detection, whatever the data.
DetectObjects(chunk) == 1

\* extract_dominant_color
ExtractDominantColor(chunk) ==
    IF chunk.len < 100 THEN "None"
    ELSE IF chunk.magic \in {"jpeg", "png"} THEN "#808080" ELSE "None"

\* estimate_image_size
EstimateImageSize(chunk) ==
    IF chunk.len < 10000 THEN "small"
    ELSE IF chunk.len < 100000 THEN "medium"
    ELSE IF chunk.len < 1000000 THEN "large"
    ELSE "very_large"

\* The AnalysisResult analyze_image returns.
AnalysisResultOf(chunk, processing_time) ==
    [objects |-> DetectObjects(chunk), dominant_color |-> ExtractDominantColor(chunk),
     estimated_size |-> EstimateImageSize(chunk), processing_time_ms |-> processing_time]

\* Mutant: serializing the result fails, after analyze_image has counted it.
ImgStreamResultFails(chunk, result) ==
    ImgErr("process_chunk", "InvalidStreamData", "serialize")

\* Mutant: the output stream is numbered by the engine's image counter.
ImgStreamResultCounting(chunk, result) ==
    [ImgOk("process_chunk") EXCEPT
        !.input_sequence = chunk.sequence,
        !.output_sequence = imgStats.images_processed,
        !.data_type = Json,
        !.result = result]

\* The StreamResult process_chunk returns.
ImgStreamResultOf(chunk, result) ==
    [ImgOk("process_chunk") EXCEPT
        !.input_sequence = chunk.sequence,
        !.output_sequence = chunk.sequence,
        !.data_type = Json,
        !.result = result]

ProcessChunkCall(t, chunk) ==
    /\ ipc[t] = "idle"
    /\ ipc' = [ipc EXCEPT ![t] = "validate"]
    /\ iarg' = [iarg EXCEPT ![t] = [NoImgArg EXCEPT !.op = "process_chunk",
                                                   !.chunk = chunk]]
    /\ iret' = [iret EXCEPT ![t] = NoImgRet]
    /\ UNCHANGED <<imgStats, imgLock, ilocal, imgAccepted>>
    /\ UNCHANGED <<yoloVars, orderVars, extVars>>

\* The data type check, then analyze_image up to its stats.lock().
ProcessChunkValidate(t, elapsed) ==
    /\ ipc[t] = "validate"
    /\ IF TypeAccepted(iarg[t].chunk.data_type)
       THEN /\ ipc' = [ipc EXCEPT ![t] = "analyze_lock"]
            /\ ilocal' = [ilocal EXCEPT ![t].result =
                             AnalysisResultOf(iarg[t].chunk, elapsed)]
            /\ imgAccepted' = imgAccepted + 1
            /\ UNCHANGED <<iarg, iret>>
       ELSE /\ elapsed = 0
            /\ ImgReturn(t, ImgErr("process_chunk", "InvalidStreamData",
                                   "Expected image data"))
            /\ UNCHANGED imgAccepted
    /\ UNCHANGED <<imgStats, imgLock>>
    /\ UNCHANGED <<yoloVars, orderVars, extVars>>

\* analyze_image, "Update stats": the three `+=` on what the guard gave.
UpdateImgStats(seen, result) ==
    [images_processed |-> seen.images_processed + 1,
     total_processing_time_ms |-> seen.total_processing_time_ms + result.processing_time_ms,
     detections_found |-> seen.detections_found + result.objects]

\* analyze_image: stats.lock(); the counters are read through the guard.
AnalyzeImageLock(t) ==
    /\ ipc[t] = "analyze_lock"
    /\ LockFree(imgLock)
    /\ imgLock' = t
    /\ ilocal' = [ilocal EXCEPT ![t].seen = imgStats]
    /\ ipc' = [ipc EXCEPT ![t] = "analyze_stats"]
    /\ UNCHANGED <<imgStats, iarg, iret, imgAccepted>>
    /\ UNCHANGED <<yoloVars, orderVars, extVars>>

\* analyze_image: the counters are written; the guard drops as it returns, and
\* process_chunk serializes the result.
AnalyzeImageStats(t) ==
    /\ ipc[t] = "analyze_stats"
    /\ imgStats' = UpdateImgStats(ilocal[t].seen, ilocal[t].result)
    /\ imgLock' = NoThread
    /\ ImgReturn(t, ImgStreamResultOf(iarg[t].chunk, ilocal[t].result))
    /\ UNCHANGED imgAccepted
    /\ UNCHANGED <<yoloVars, orderVars, extVars>>

\* ------------------------------------------------------ execute_command
ExecuteCommandCall(t, command) ==
    /\ ipc[t] = "idle"
    /\ iret' = [iret EXCEPT ![t] = NoImgRet]
    /\ IF command = "reset_stats"
       THEN /\ ipc' = [ipc EXCEPT ![t] = "reset_lock"]
            /\ iarg' = [iarg EXCEPT ![t] = [NoImgArg EXCEPT !.op = "execute_command",
                                                           !.command = command]]
       ELSE /\ ipc' = [ipc EXCEPT ![t] = "no_command"]
            /\ iarg' = [iarg EXCEPT ![t] = [NoImgArg EXCEPT !.op = "execute_command",
                                                           !.command = command]]
    /\ UNCHANGED <<imgStats, imgLock, ilocal, imgAccepted>>
    /\ UNCHANGED <<yoloVars, orderVars, extVars>>

\* The match's default arm: CommandNotFound(command).
ExecuteCommandNotFound(t) ==
    /\ ipc[t] = "no_command"
    /\ ImgReturn(t, CommandNotFound(ImgOk("execute_command"), iarg[t].command))
    /\ UNCHANGED <<imgStats, imgLock, imgAccepted>>
    /\ UNCHANGED <<yoloVars, orderVars, extVars>>

\* reset_stats: stats.lock() and the first counter.
ResetStatsLock(t) ==
    /\ ipc[t] = "reset_lock"
    /\ LockFree(imgLock)
    /\ imgLock' = t
    /\ imgStats' = [imgStats EXCEPT !.images_processed = 0]
    /\ imgAccepted' = 0
    /\ ipc' = [ipc EXCEPT ![t] = "reset_stats"]
    /\ UNCHANGED <<iarg, ilocal, iret>>
    /\ UNCHANGED <<yoloVars, orderVars, extVars>>

\* Mutant: reset_stats leaves detections_found as it is.
ResetStatsRestKeepsDetections(t) ==
    /\ ipc[t] = "reset_stats"
    /\ imgStats' = [imgStats EXCEPT !.total_processing_time_ms = 0]
    /\ imgLock' = NoThread
    /\ ImgReturn(t, ImgOk("execute_command"))
    /\ UNCHANGED imgAccepted
    /\ UNCHANGED <<yoloVars, orderVars, extVars>>

\* reset_stats: the other counters; the guard drops as it returns.
ResetStatsRest(t) ==
    /\ ipc[t] = "reset_stats"
    /\ imgStats' = [imgStats EXCEPT !.total_processing_time_ms = 0,
                                    !.detections_found = 0]
    /\ imgLock' = NoThread
    /\ ImgReturn(t, ImgOk("execute_command"))
    /\ UNCHANGED imgAccepted
    /\ UNCHANGED <<yoloVars, orderVars, extVars>>

\* ------------------------------------------------------ produce_metrics
\* The three values produce_metrics returns.
ImgMetricsOf(st) ==
    [images_processed |-> st.images_processed,
     avg_processing_time_ms |->
         IF st.images_processed > 0
         THEN Ratio(st.total_processing_time_ms, st.images_processed)
         ELSE Ratio(0, 1),
     total_detections |-> st.detections_found]

ImgProduceMetricsCall(t) ==
    /\ ipc[t] = "idle"
    /\ ipc' = [ipc EXCEPT ![t] = "metrics_lock"]
    /\ iarg' = [iarg EXCEPT ![t] = [NoImgArg EXCEPT !.op = "produce_metrics"]]
    /\ iret' = [iret EXCEPT ![t] = NoImgRet]
    /\ UNCHANGED <<imgStats, imgLock, ilocal, imgAccepted>>
    /\ UNCHANGED <<yoloVars, orderVars, extVars>>

\* stats.lock(); the values are read and the guard drops as it returns.
ImgProduceMetrics(t) ==
    /\ ipc[t] = "metrics_lock"
    /\ LockFree(imgLock)
    /\ imgStats' = ReadGuard(imgStats)
    /\ ImgReturn(t, [ImgOk("produce_metrics") EXCEPT !.metrics = ImgMetricsOf(imgStats)])
    /\ UNCHANGED <<imgLock, imgAccepted>>
    /\ UNCHANGED <<yoloVars, orderVars, extVars>>

\* ============================================== optional JSON arguments
\* args.get(name).and_then(as_str / as_i64 / as_u64 / as_bool): a value of
\* the wanted type, or nothing.
Some(x) == [some |-> TRUE, v |-> x]
NoneStr == [some |-> FALSE, v |-> ""]
NoneInt == [some |-> FALSE, v |-> 0]
NoneBool == [some |-> FALSE, v |-> FALSE]
NoneCity == [some |-> FALSE, v |-> <<>>]

\* Option::unwrap_or
UnwrapOr(o, d) == IF o.some THEN o.v ELSE d

\* as_secs() of the clock
NowSecs == now \div 1000

\* ============================================================= template
\* Configurations the TemplateExtension is created with.
TplConfigs ==
    {[config_value |-> c, collection_interval_seconds |-> i] :
        c \in {NoneStr, Some("custom")}, i \in {NoneInt, Some(0), Some(1)}}

\* TemplateExtension::new: the state built from the configuration.
TemplateNew(config) ==
    [config_value |-> UnwrapOr(config.config_value, "default_value"),
     collection_interval_seconds |-> UnwrapOr(config.collection_interval_seconds, 60),
     last_collection_timestamp |-> NowSecs,
     cached_value |-> 4200]

NoTplArg == [op |-> "none", command |-> "", input |-> NoneStr, now |-> 0]
NoTplMetric == [name |-> "", value |-> 0, timestamp |-> 0]
NoTplRet == [kind |-> "none", op |-> "none", err |-> "", what |-> "",
             message |-> <<>>, config_value |-> "", timestamp |-> 0,
             metrics |-> <<>>]

TplInit(config) ==
    /\ tplState = TemplateNew(config)
    /\ tpc = [t \in Threads |-> "idle"]
    /\ targ = [t \in Threads |-> NoTplArg]
    /\ tret = [t \in Threads |-> NoTplRet]

TplReturn(t, r) ==
    /\ tpc' = [tpc EXCEPT ![t] = "idle"]
    /\ targ' = [targ EXCEPT ![t] = NoTplArg]
    /\ tret' = [tret EXCEPT ![t] = r]

TplOk(op) == [NoTplRet EXCEPT !.kind = "Ok", !.op = op]

\* ------------------------------------------------------ execute_command
TplExecuteCommandCall(t, command, input) ==
    /\ tpc[t] = "idle"
    /\ tpc' = [tpc EXCEPT ![t] = "command"]
    /\ targ' = [targ EXCEPT ![t] = [NoTplArg EXCEPT !.op = "execute_command",
                                                    !.command = command,
                                                    !.input = input]]
    /\ tret' = [tret EXCEPT ![t] = NoTplRet]
    /\ UNCHANGED <<now, tplState, wxVars>>
    /\ UNCHANGED <<yoloVars, imgVars, orderVars, ffiVars, oldVars>>

\* The match on the command name: example_command echoes its input, with
\* the configured value and the time in milliseconds.
TplExecuteCommandMatch(t) ==
    /\ tpc[t] = "command"
    /\ IF targ[t].command = "example_command"
       THEN TplReturn(t, [TplOk("execute_command") EXCEPT
                            !.message = <<"You said: ", UnwrapOr(targ[t].input, "no input")>>,
                            !.config_value = tplState.config_value,
                            !.timestamp = now])
       ELSE TplReturn(t, CommandNotFound(TplOk("execute_command"), targ[t].command))
    /\ UNCHANGED <<now, tplState, wxVars>>
    /\ UNCHANGED <<yoloVars, imgVars, orderVars, ffiVars, oldVars>>

\* ------------------------------------------------------ produce_metrics
\* The example_metric value, in hundredths.
TplMetric(value, timestamp) ==
    <<[name |-> "example_metric", value |-> value, timestamp |-> timestamp]>>

\* produce_metrics enters should_collect_metrics, which reads the clock (in
\* seconds) before it asks for the timestamp's lock.
TplProduceMetricsCall(t) ==
    /\ tpc[t] = "idle"
    /\ tpc' = [tpc EXCEPT ![t] = "should_collect"]
    /\ targ' = [targ EXCEPT ![t] = [NoTplArg EXCEPT !.op = "produce_metrics",
                                                    !.now = NowSecs]]
    /\ tret' = [tret EXCEPT ![t] = NoTplRet]
    /\ UNCHANGED <<now, tplState, wxVars>>
    /\ UNCHANGED <<yoloVars, imgVars, orderVars, ffiVars, oldVars>>

\* should_collect_metrics: under the timestamp's lock, the interval test on
\* the clock reading taken before, and the new timestamp.
TplShouldCollectMetrics(t) ==
    /\ tpc[t] = "should_collect"
    /\ IF targ[t].now - tplState.last_collection_timestamp
            >= tplState.collection_interval_seconds
       THEN /\ tplState' = [tplState EXCEPT !.last_collection_timestamp = targ[t].now]
            /\ tpc' = [tpc EXCEPT ![t] = "generate"]
       ELSE /\ tplState' = tplState
            /\ tpc' = [tpc EXCEPT ![t] = "cached"]
    /\ UNCHANGED <<now, targ, tret, wxVars>>
    /\ UNCHANGED <<yoloVars, imgVars, orderVars, ffiVars, oldVars>>

\* generate_fresh_metrics: 42.0 + (millis % 1000) / 100.0, stored under the
\* value's lock and returned.
TplGenerateFreshMetrics(t) ==
    /\ tpc[t] = "generate"
    /\ LET fresh_value == 4200 + (now % 1000)
       IN  /\ tplState' = [tplState EXCEPT !.cached_value = fresh_value]
           /\ TplReturn(t, [TplOk("produce_metrics") EXCEPT
                               !.metrics = TplMetric(fresh_value, now)])
    /\ UNCHANGED <<now, wxVars>>
    /\ UNCHANGED <<yoloVars, imgVars, orderVars, ffiVars, oldVars>>

\* The stored value is returned.
TplReturnCached(t) ==
    /\ tpc[t] = "cached"
    /\ TplReturn(t, [TplOk("produce_metrics") EXCEPT
                        !.metrics = TplMetric(tplState.cached_value, now)])
    /\ UNCHANGED <<now, tplState, wxVars>>
    /\ UNCHANGED <<yoloVars, imgVars, orderVars, ffiVars, oldVars>>

\* ===================================================== weather-forecast
\* City names are byte strings.
Beijing == <<66, 101, 105, 106, 105, 110, 103>>
Tokyo == <<84, 111, 107, 121, 111>>
London == <<76, 111, 110, 100, 111, 110>>
Shanghai == <<83, 104, 97, 110, 103, 104, 97, 105>>

\* A u32 kept as its two 16-bit halves.
U32(hi, lo) == [hi |-> hi, lo |-> lo]

\* acc.wrapping_mul(31).wrapping_add(b as u32)
HashStep(acc, b) ==
    LET lo == acc.lo * 31 + b
        hi == acc.hi * 31 + (lo \div 65536)
    IN  U32(hi % 65536, lo % 65536)

RECURSIVE HashFold(_, _)
\* city.bytes().fold(0u32, ...)
HashFold(acc, bytes) ==
    IF bytes = <<>> THEN acc ELSE HashFold(HashStep(acc, Head(bytes)), Tail(bytes))

\* Mutant: the hash is used without the remainder.
HashModOmitted(h, m) == h.lo

\* hash % m
HashMod(h, m) == ((h.hi % m) * (65536 % m) + (h.lo % m)) % m

\* simulate_weather; temperatures are in hundredths of a degree.
SimulateWeather(city) ==
    LET hash == HashFold(U32(0, 0), city)
        humidity == 30 + HashMod(hash, 60)
        clouds == HashMod(hash, 100)
    IN  [city |-> city,
         temperature_c |-> (HashMod(hash, 40) - 10) * 100,
         humidity_percent |-> humidity,
         wind_speed_kmph |-> HashMod(hash, 20),
         cloud_cover_percent |-> clouds,
         description |-> IF clouds > 50 THEN "Cloudy"
                         ELSE IF humidity > 70 THEN "Humid" ELSE "Clear"]

\* The city names of the city scenario.
CityNames ==
    UNION {[1..n -> CityBytes] : n \in 0..MaxCityLen}
        \cup {Beijing, Tokyo, London, Shanghai}

\* Configurations the WeatherExtension is created with.
WxConfigs ==
    {[default_city |-> c, update_interval_minutes |-> i] :
        c \in {NoneCity, Some(Tokyo)}, i \in {NoneInt, Some(0), Some(1)}}

\* WeatherExtension::new: the state built from the configuration.
WeatherNew(config) ==
    [default_city |-> UnwrapOr(config.default_city, Beijing),
     collection_interval_seconds |-> UnwrapOr(config.update_interval_minutes, 60) * 60,
     last_collection_timestamp |-> 0,
     cached_metrics |-> <<>>]

NoWxArg == [op |-> "none", command |-> "", city |-> NoneCity, units |-> NoneStr,
            include_alerts |-> NoneBool, days_ahead |-> NoneInt, days |-> NoneInt,
            now |-> 0]
NoWxData == [city |-> <<>>, temperature_c |-> 0, humidity_percent |-> 0,
             wind_speed_kmph |-> 0, cloud_cover_percent |-> 0, description |-> "",
             temperature_unit |-> NoneStr, alerts_enabled |-> NoneBool,
             units_requested |-> NoneStr, days_ahead |-> NoneInt]
NoWxForecast == [city |-> <<>>, forecast_days |-> 0, detailed |-> FALSE,
                 forecasts |-> <<>>]
NoWxRet == [kind |-> "none", op |-> "none", err |-> "", what |-> "",
            data |-> NoWxData, forecast |-> NoWxForecast, metrics |-> <<>>]

WxInit(config) ==
    /\ wxState = WeatherNew(config)
    /\ wpc = [t \in Threads |-> "idle"]
    /\ warg = [t \in Threads |-> NoWxArg]
    /\ wret = [t \in Threads |-> NoWxRet]

WxReturn(t, r) ==
    /\ wpc' = [wpc EXCEPT ![t] = "idle"]
    /\ warg' = [warg EXCEPT ![t] = NoWxArg]
    /\ wret' = [wret EXCEPT ![t] = r]

WxOk(op) == [NoWxRet EXCEPT !.kind = "Ok", !.op = op]

\* The JSON object simulate_weather returns, before a command adds to it.
WxDataOf(w) ==
    [NoWxData EXCEPT !.city = w.city, !.temperature_c = w.temperature_c,
                     !.humidity_percent = w.humidity_percent,
                     !.wind_speed_kmph = w.wind_speed_kmph,
                     !.cloud_cover_percent = w.cloud_cover_percent,
                     !.description = w.description]

\* ------------------------------------------------------ execute_command
\* query_weather: the unit conversion, the alerts, the echoed parameters.
QueryWeather(state, a) ==
    LET city == UnwrapOr(a.city, state.default_city)
        units == UnwrapOr(a.units, "celsius")
        data == WxDataOf(SimulateWeather(city))
        converted ==
            IF units = "fahrenheit"
            THEN [data EXCEPT !.temperature_c = (data.temperature_c * 9) \div 5 + 3200,
                              !.temperature_unit = Some("°F")]
            ELSE IF units = "kelvin"
            THEN [data EXCEPT !.temperature_c = data.temperature_c + 27315,
                              !.temperature_unit = Some("K")]
            ELSE data
        alerted ==
            IF UnwrapOr(a.include_alerts, FALSE)
            THEN [converted EXCEPT !.alerts_enabled = Some(TRUE)]
            ELSE converted
    IN  [alerted EXCEPT !.units_requested = Some(units),
                        !.days_ahead = Some(UnwrapOr(a.days_ahead, 1))]

RECURSIVE Digits(_)
\* The decimal digits of n, as bytes: format!("{}", n)
Digits(n) == IF n < 10 THEN <<48 + n>> ELSE Digits(n \div 10) \o <<48 + (n % 10)>>

\* `as usize` of an i64: a negative number wraps to 2^64 + n.
AsUsizeWraps(n) == n < 0

\* forecast_summary: one entry per day 1..=days, from the weather simulated
\* for the city name followed by the day (for a days that did not wrap).
ForecastSummary(state, a) ==
    LET city == UnwrapOr(a.city, state.default_city)
        days == UnwrapOr(a.days, 3)
        Daily(day) == SimulateWeather(city \o Digits(day))
    IN  [city |-> city, forecast_days |-> days, detailed |-> TRUE,
         forecasts |-> [day \in 1..days |->
                          [day |-> day, temperature_c |-> Daily(day).temperature_c,
                           humidity_percent |-> Daily(day).humidity_percent,
                           description |-> Daily(day).description]]]

WxExecuteCommandCall(t, a) ==
    /\ wpc[t] = "idle"
    /\ wpc' = [wpc EXCEPT ![t] = "command"]
    /\ warg' = [warg EXCEPT ![t] = [a EXCEPT !.op = "execute_command"]]
    /\ wret' = [wret EXCEPT ![t] = NoWxRet]
    /\ UNCHANGED <<now, wxState, tplVars>>
    /\ UNCHANGED <<yoloVars, imgVars, orderVars, ffiVars, oldVars>>

\* The match on the command name.
WxExecuteCommandMatch(t) ==
    /\ wpc[t] = "command"
    /\ WxReturn(t,
         CASE warg[t].command = "query_weather" ->
                [WxOk("execute_command") EXCEPT !.data = QueryWeather(wxState, warg[t])]
           [] warg[t].command = "refresh" ->
                [WxOk("execute_command") EXCEPT
                    !.data = WxDataOf(SimulateWeather(wxState.default_city))]
           [] warg[t].command = "forecast_summary"
                /\ AsUsizeWraps(UnwrapOr(warg[t].days, 3)) ->
                \* 1..=days runs to 2^64 + n, pushing an entry each time:
                \* the allocation fails long before and the process aborts.
                [WxOk("execute_command") EXCEPT !.kind = "Abort"]
           [] warg[t].command = "forecast_summary" ->
                [WxOk("execute_command") EXCEPT
                    !.forecast = ForecastSummary(wxState, warg[t])]
           [] OTHER -> CommandNotFound(WxOk("execute_command"), warg[t].command))
    /\ UNCHANGED <<now, wxState, tplVars>>
    /\ UNCHANGED <<yoloVars, imgVars, orderVars, ffiVars, oldVars>>

\* ------------------------------------------------------ produce_metrics
\* Mutant: the cloud cover is left out.
WxMetricsWithoutClouds(w, timestamp) ==
    <<[name |-> "temperature_c", value |-> w.temperature_c, timestamp |-> timestamp],
      [name |-> "humidity_percent", value |-> w.humidity_percent, timestamp |-> timestamp],
      [name |-> "wind_speed_kmph", value |-> w.wind_speed_kmph, timestamp |-> timestamp]>>

\* The four metric values generate_fresh_metrics builds.
WxMetricsOf(w, timestamp) ==
    <<[name |-> "temperature_c", value |-> w.temperature_c, timestamp |-> timestamp],
      [name |-> "humidity_percent", value |-> w.humidity_percent, timestamp |-> timestamp],
      [name |-> "wind_speed_kmph", value |-> w.wind_speed_kmph, timestamp |-> timestamp],
      [name |-> "cloud_cover_percent", value |-> w.cloud_cover_percent,
       timestamp |-> timestamp]>>

\* produce_metrics enters should_collect_metrics, which reads the clock (in
\* seconds) before it asks for the timestamp's lock.
WxProduceMetricsCall(t) ==
    /\ wpc[t] = "idle"
    /\ wpc' = [wpc EXCEPT ![t] = "should_collect"]
    /\ warg' = [warg EXCEPT ![t] = [NoWxArg EXCEPT !.op = "produce_metrics",
                                                  !.now = NowSecs]]
    /\ wret' = [wret EXCEPT ![t] = NoWxRet]
    /\ UNCHANGED <<now, wxState, tplVars>>
    /\ UNCHANGED <<yoloVars, imgVars, orderVars, ffiVars, oldVars>>

\* should_collect_metrics: under the timestamp's lock, the interval test on
\* the clock reading taken before, and the new timestamp.
WxShouldCollectMetrics(t) ==
    /\ wpc[t] = "should_collect"
    /\ IF warg[t].now - wxState.last_collection_timestamp
            >= wxState.collection_interval_seconds
       THEN /\ wxState' = [wxState EXCEPT !.last_collection_timestamp = warg[t].now]
            /\ wpc' = [wpc EXCEPT ![t] = "generate"]
       ELSE /\ wxState' = wxState
            /\ wpc' = [wpc EXCEPT ![t] = "cached"]
    /\ UNCHANGED <<now, warg, wret, tplVars>>
    /\ UNCHANGED <<yoloVars, imgVars, orderVars, ffiVars, oldVars>>

\* generate_fresh_metrics: the weather of the default city, stored under the
\* cache's lock and returned.
WxGenerateFreshMetrics(t) ==
    /\ wpc[t] = "generate"
    /\ LET metrics == WxMetricsOf(SimulateWeather(wxState.default_city), now)
       IN  /\ wxState' = [wxState EXCEPT !.cached_metrics = metrics]
           /\ WxReturn(t, [WxOk("produce_metrics") EXCEPT !.metrics = metrics])
    /\ UNCHANGED <<now, tplVars>>
    /\ UNCHANGED <<yoloVars, imgVars, orderVars, ffiVars, oldVars>>

\* The cache under its lock: its content is returned, or, when it is empty,
\* the lock is dropped and fresh data is generated.
WxReturnCached(t) ==
    /\ wpc[t] = "cached"
    /\ IF wxState.cached_metrics # <<>>
       THEN WxReturn(t, [WxOk("produce_metrics") EXCEPT
                           !.metrics = wxState.cached_metrics])
       ELSE /\ wpc' = [wpc EXCEPT ![t] = "generate"]
            /\ UNCHANGED <<warg, wret>>
    /\ UNCHANGED <<now, wxState, tplVars>>
    /\ UNCHANGED <<yoloVars, imgVars, orderVars, ffiVars, oldVars>>

\* ---------------------------------------------------------------- clock
\* Time passes.
Tick(d) ==
    /\ now' = now + d
    /\ UNCHANGED <<tplVars, wxVars>>
    /\ UNCHANGED <<yoloVars, imgVars, orderVars, ffiVars, oldVars>>

\* ================================================================== FFI
\* The exported C functions of the four extension libraries. Byte string
\* literals are kept as the sequences of their bytes.
Extensions == {"yolo-video", "image-analyzer", "template", "weather-forecast"}
IdentityFields == {"id", "name", "version", "description", "author"}
NullHandle == 0

\* The literals of neomind_extension_metadata in yolo-video.
YoloMetadataLiterals ==
    [id |->
          <<121, 111, 108, 111, 45, 118, 105, 100, 101, 111, 0>>,
     name |->
          <<89, 79, 76, 79, 32, 86, 105, 100, 101, 111, 32, 80, 114, 111, 99, 101,
          115, 115, 111, 114, 0>>,
     version |->
          <<49, 46, 48, 46, 48, 0>>,
     description |->
          <<83, 116, 97, 116, 101, 102, 117, 108, 32, 118, 105, 100, 101, 111, 32,
          115, 116, 114, 101, 97, 109, 32, 112, 114, 111, 99, 101, 115,
          115, 105, 110, 103, 32, 119, 105, 116, 104, 32, 89, 79, 76, 79,
          0>>,
     author |->
          <<78, 101, 111, 77, 105, 110, 100, 32, 84, 101, 97, 109, 0>>]

\* The literals of neomind_extension_metadata in image-analyzer.
ImgMetadataLiterals ==
    [id |->
          <<105, 109, 97, 103, 101, 45, 97, 110, 97, 108, 121, 122, 101, 114, 0>>,
     name |->
          <<73, 109, 97, 103, 101, 32, 65, 110, 97, 108, 121, 122, 101, 114, 0>>,
     version |->
          <<49, 46, 48, 46, 48, 0>>,
     description |->
          <<83, 116, 97, 116, 101, 108, 101, 115, 115, 32, 105, 109, 97, 103, 101,
          32, 97, 110, 97, 108, 121, 115, 105, 115, 32, 101, 120, 116,
          101, 110, 115, 105, 111, 110, 0>>,
     author |->
          <<78, 101, 111, 77, 105, 110, 100, 32, 84, 101, 97, 109, 0>>]

\* The literals of neomind_extension_metadata in template; the version
\* literal is b"0.5.8\\0" in the source: a backslash (92) and the digit 0 (48).
TplMetadataLiterals ==
    [id |->
          <<99, 111, 109, 46, 101, 120, 97, 109, 112, 108, 101, 46, 116, 101, 109,
          112, 108, 97, 116, 101, 0>>,
     name |->
          <<84, 101, 109, 112, 108, 97, 116, 101, 32, 69, 120, 116, 101, 110, 115,
          105, 111, 110, 0>>,
     version |->
          <<48, 46, 53, 46, 56, 92, 48>>,
     description |->
          <<65, 32, 116, 101, 109, 112, 108, 97, 116, 101, 32, 101, 120, 116, 101,
          110, 115, 105, 111, 110, 32, 102, 111, 114, 32, 78, 101, 111,
          77, 105, 110, 100, 0>>,
     author |->
          <<67, 97, 109, 84, 104, 105, 110, 107, 0>>]

\* The literals of neomind_extension_metadata in weather-forecast.
WxMetadataLiterals ==
    [id |->
          <<110, 101, 111, 109, 105, 110, 100, 46, 119, 101, 97, 116, 104, 101, 114,
          46, 102, 111, 114, 101, 99, 97, 115, 116, 0>>,
     name |->
          <<87, 101, 97, 116, 104, 101, 114, 32, 70, 111, 114, 101, 99, 97, 115,
          116, 32, 69, 120, 116, 101, 110, 115, 105, 111, 110, 0>>,
     version |->
          <<48, 46, 51, 46, 48, 0>>,
     description |->
          <<80, 114, 111, 118, 105, 100, 101, 115, 32, 119, 101, 97, 116, 104, 101,
          114, 32, 100, 97, 116, 97, 32, 97, 110, 100, 32, 102, 111, 114,
          101, 99, 97, 115, 116, 115, 0>>,
     author |->
          <<67, 97, 109, 84, 104, 105, 110, 107, 0>>]

\* CStr::from_bytes_with_nul: Ok when the first NUL byte is the last byte.
FromBytesWithNul(bytes) ==
    [ok |-> {i \in 1..Len(bytes) : bytes[i] = 0} = {Len(bytes)}, bytes |-> bytes]

\* The C string a pointer returned by as_ptr() designates is NUL-terminated.
NulTerminated(bytes) == Len(bytes) > 0 /\ bytes[Len(bytes)] = 0

MetadataLiterals(e) ==
    CASE e = "yolo-video" -> YoloMetadataLiterals
      [] e = "image-analyzer" -> ImgMetadataLiterals
      [] e = "template" -> TplMetadataLiterals
      [] e = "weather-forecast" -> WxMetadataLiterals

\* A JSON object, kept as the keys the constructors read.
EmptyObject ==
    [config_value |-> NoneStr, collection_interval_seconds |-> NoneInt,
     default_city |-> NoneCity, update_interval_minutes |-> NoneInt]
SomeObject ==
    [config_value |-> Some("custom"), collection_interval_seconds |-> Some(1),
     default_city |-> Some(Tokyo), update_interval_minutes |-> Some(1)]

\* What the host passes as (config_json, config_len): the pointer may be
\* null, the length zero, and the bytes a well-formed JSON document, text that
\* does not parse, or bytes that are not UTF-8.
Payload(is_null, len, text, value) ==
    [is_null |-> is_null, len |-> len, text |-> text, value |-> value]
NoPayload == Payload(TRUE, 0, "", EmptyObject)
FfiPayloads ==
    { Payload(TRUE, 0, "", EmptyObject),
      Payload(FALSE, 0, "", EmptyObject),
      Payload(FALSE, 5, "malformed", EmptyObject),
      Payload(FALSE, 64, "json", SomeObject),
      Payload(FALSE, 2, "not_utf8", EmptyObject) }

\* from_utf8_unchecked on bytes that are not UTF-8 is undefined behaviour.
Undefined(payload) ==
    ~payload.is_null /\ payload.len # 0 /\ payload.text = "not_utf8"

\* The config of neomind_extension_create: json!({}) for a null pointer or a
\* zero length, else the parsed text, or json!({}) when it does not parse.
ParseFfiConfig(payload) ==
    IF payload.is_null \/ payload.len = 0
    THEN EmptyObject
    ELSE IF payload.text = "json" THEN payload.value ELSE EmptyObject

\* Mutant: a constructor that fails on a configuration without keys.
ExtensionNewRequiresConfig(e, config) ==
    [ok |-> config # EmptyObject, state |-> [config |-> config]]

\* The constructor each library calls: TemplateExtension::new(&config),
\* WeatherExtension::new(&config), YoloVideoProcessor::new(),
\* ImageAnalyzer::new(). None has an error path.
ExtensionNew(e, config) ==
    [ok |-> TRUE,
     state |->
        CASE e = "template" ->
               TemplateNew([config_value |-> config.config_value,
                            collection_interval_seconds |->
                                config.collection_interval_seconds])
          [] e = "weather-forecast" ->
               WeatherNew([default_city |-> config.default_city,
                           update_interval_minutes |-> config.update_interval_minutes])
          [] e = "yolo-video" ->
               [sessions |-> [i \in {} |-> NoSession], stats |-> DefaultStats]
          [] e = "image-analyzer" -> [stats |-> DefaultImgStats]]

NoMetadata == [f \in IdentityFields |-> <<>>]
NoFfiRet == [kind |-> "none", op |-> "none", extension |-> "", payload |-> NoPayload,
             handle |-> NullHandle, metadata |-> NoMetadata]
FfiReturned(op, e) == [NoFfiRet EXCEPT !.kind = "Ok", !.op = op, !.extension = e]

FfiInit ==
    /\ instances = [h \in {} |-> [extension |-> "", state |-> <<>>]]
    /\ issued = 0
    /\ made = <<>>
    /\ destroyed = {}
    /\ fret = NoFfiRet

\* neomind_extension_metadata: five from_bytes_with_nul(..).unwrap(), then the
\* structure of the pointers. A failed unwrap panics.
FfiMetadata(e) ==
    /\ fret.kind # "Undefined"
    /\ LET cstr == [f \in IdentityFields |-> FromBytesWithNul(MetadataLiterals(e)[f])]
       IN  fret' = IF \A f \in IdentityFields : cstr[f].ok
                   THEN [FfiReturned("metadata", e) EXCEPT
                            !.metadata = [f \in IdentityFields |-> cstr[f].bytes]]
                   ELSE [FfiReturned("metadata", e) EXCEPT !.kind = "Panic"]
    /\ UNCHANGED <<instances, issued, made, destroyed>>
    /\ UNCHANGED <<now, tplVars, wxVars>>
    /\ UNCHANGED <<yoloVars, imgVars, orderVars, oldVars>>

\* neomind_extension_create: the config, the constructor, Box::into_raw of
\* the new instance, or a null pointer when the constructor fails. A handle
\* is the number of the allocation.
FfiCreate(e, payload) ==
    /\ fret.kind # "Undefined"
    /\ \E defined \in (IF Undefined(payload) THEN {TRUE, FALSE} ELSE {TRUE}) :
          LET ext == ExtensionNew(e, ParseFfiConfig(payload))
              r == [FfiReturned("create", e) EXCEPT !.payload = payload]
          IN  IF ~defined
              THEN /\ fret' = [r EXCEPT !.kind = "Undefined"]
                   /\ UNCHANGED <<instances, issued, made>>
              ELSE IF ext.ok
              THEN /\ instances' = Insert(instances, issued + 1,
                                          [extension |-> e, state |-> ext.state])
                   /\ issued' = issued + 1
                   /\ made' = Append(made, payload.text)
                   /\ fret' = [r EXCEPT !.handle = issued + 1]
              ELSE /\ fret' = r
                   /\ UNCHANGED <<instances, issued, made>>
    /\ UNCHANGED destroyed
    /\ UNCHANGED <<now, tplVars, wxVars>>
    /\ UNCHANGED <<yoloVars, imgVars, orderVars, oldVars>>

\* neomind_extension_destroy: Box::from_raw drops the instance unless the
\* pointer is null. The host passes a handle it holds and has not passed before.
FfiDestroy(h) ==
    /\ fret.kind # "Undefined"
    /\ h = NullHandle \/ h \in DOMAIN instances
    /\ IF h # NullHandle
       THEN /\ instances' = Remove(instances, h)
            /\ destroyed' = destroyed \cup {h}
            /\ fret' = [FfiReturned("destroy", instances[h].extension) EXCEPT !.handle = h]
       ELSE /\ fret' = FfiReturned("destroy", "")
            /\ UNCHANGED <<instances, destroyed>>
    /\ UNCHANGED <<issued, made>>
    /\ UNCHANGED <<now, tplVars, wxVars>>
    /\ UNCHANGED <<yoloVars, imgVars, orderVars, oldVars>>

\* ================================= the older weather extension (src/src)
\* One host calls it; each handler is one step. Temperatures are whole
\* degrees kept as the u32 the expression computes, before its cast to f64.
OldCities == {Beijing, Tokyo, London, Shanghai}
OldCityArgs == {NoneCity} \cup {Some(c) : c \in OldCities}

\* ((hash % 40) - 10) on u32: below 10 the subtraction overflows, which
\* panics in a build with overflow checks and wraps around 2^32 in one without.
OldTemperature(hash, checks) ==
    LET r == HashMod(hash, 40)
    IN  IF r >= 10 THEN [panic |-> FALSE, value |-> U32(0, r - 10)]
        ELSE IF checks THEN [panic |-> TRUE, value |-> U32(0, 0)]
        ELSE [panic |-> FALSE, value |-> U32(65535, 65536 + r - 10)]

NoOldData == [city |-> <<>>, temperature |-> U32(0, 0), humidity |-> 0, wind_speed |-> 0,
              cloud_cover |-> 0, description |-> "", timestamp |-> 0]

\* simulate_weather of the older implementation.
OldSimulateWeather(city, checks) ==
    LET hash == HashFold(U32(0, 0), city)
        base_temp == OldTemperature(hash, checks)
        humidity == 30 + HashMod(hash, 60)
        cloud_cover == HashMod(hash, 100)
    IN  [panic |-> base_temp.panic,
         data |-> [city |-> city,
                   temperature |-> base_temp.value,
                   humidity |-> humidity,
                   wind_speed |-> HashMod(hash, 20),
                   cloud_cover |-> cloud_cover,
                   description |-> IF cloud_cover > 50 THEN "Cloudy"
                                   ELSE IF humidity > 70 THEN "Humid" ELSE "Clear",
                   timestamp |-> NowSecs]]

\* WeatherExtension::new of the older implementation.
OldWeatherNew(config) ==
    [api_key |-> "demo_key",
     default_city |-> UnwrapOr(config.default_city, Beijing),
     units |-> "metric",
     cached_data |-> [some |-> FALSE, v |-> NoOldData],
     last_update |-> NoneInt]

NoOldRet == [kind |-> "none", op |-> "none", err |-> "", city |-> NoneCity,
             data |-> NoOldData, set_to |-> <<>>]
OldReturned(op, city) == [NoOldRet EXCEPT !.kind = "Ok", !.op = op, !.city = city]

OldInit(config, checks) ==
    /\ overflowChecks = checks
    /\ oldState = OldWeatherNew(config)
    /\ lastSet = NoneCity
    /\ oret = NoOldRet

\* What set_city does to the state: nothing, it only builds its answer.
SetCity(state, city) == state

\* execute_command("refresh"): the city argument or the default city, the
\* weather for it, then the cache and the time of the update.
OldRefresh(city) ==
    /\ LET w == OldSimulateWeather(UnwrapOr(city, oldState.default_city), overflowChecks)
       IN  IF w.panic
           THEN /\ oret' = [OldReturned("refresh", city) EXCEPT !.kind = "Panic"]
                /\ UNCHANGED oldState
           ELSE /\ oldState' = [oldState EXCEPT !.cached_data = Some(w.data),
                                                 !.last_update = Some(now)]
                /\ oret' = [OldReturned("refresh", city) EXCEPT !.data = w.data]
    /\ UNCHANGED <<overflowChecks, lastSet>>
    /\ UNCHANGED <<now, tplVars, wxVars, ffiVars>>
    /\ UNCHANGED <<yoloVars, imgVars, orderVars>>

\* execute_command("set_city"): InvalidInput without a city, else the answer
\* "Default city set to <city>".
OldSetCity(city) ==
    /\ IF ~city.some
       THEN /\ oret' = [OldReturned("set_city", city) EXCEPT
                            !.kind = "Err", !.err = "InvalidInput"]
            /\ UNCHANGED <<oldState, lastSet>>
       ELSE /\ oldState' = SetCity(oldState, city.v)
            /\ lastSet' = city
            /\ oret' = [OldReturned("set_city", city) EXCEPT !.set_to = city.v]
    /\ UNCHANGED overflowChecks
    /\ UNCHANGED <<now, tplVars, wxVars, ffiVars>>
    /\ UNCHANGED <<yoloVars, imgVars, orderVars>>

\* execute_tool("query_weather"): InvalidInput without a city, else the
\* weather for it.
OldQueryWeather(city) ==
    /\ IF ~city.some
       THEN oret' = [OldReturned("query_weather", city) EXCEPT
                        !.kind = "Err", !.err = "InvalidInput"]
       ELSE LET w == OldSimulateWeather(city.v, overflowChecks)
            IN  oret' = IF w.panic
                        THEN [OldReturned("query_weather", city) EXCEPT !.kind = "Panic"]
                        ELSE [OldReturned("query_weather", city) EXCEPT !.data = w.data]
    /\ UNCHANGED <<overflowChecks, oldState, lastSet>>
    /\ UNCHANGED <<now, tplVars, wxVars, ffiVars>>
    /\ UNCHANGED <<yoloVars, imgVars, orderVars>>

\* produce_metrics of the older implementation: the weather of the default city.
OldProduceMetrics ==
    /\ LET w == OldSimulateWeather(oldState.default_city, overflowChecks)
       IN  oret' = IF w.panic
                   THEN [OldReturned("produce_metrics", NoneCity) EXCEPT !.kind = "Panic"]
                   ELSE [OldReturned("produce_metrics", NoneCity) EXCEPT !.data = w.data]
    /\ UNCHANGED <<overflowChecks, oldState, lastSet>>
    /\ UNCHANGED <<now, tplVars, wxVars, ffiVars>>
    /\ UNCHANGED <<yoloVars, imgVars, orderVars>>

\* ------------------------------------------------------- specifications
vars == <<yoloVars, imgVars, orderVars, extVars>>

OrderInit ==
    /\ fed = [id \in Ids |-> <<>>]
    /\ produced = [id \in Ids |-> <<>>]

\* The template and the weather extension as created from an empty
\* configuration, at ClockStart.
ExtInit ==
    /\ now = ClockStart
    /\ TplInit([config_value |-> NoneStr, collection_interval_seconds |-> NoneInt])
    /\ WxInit([default_city |-> NoneCity, update_interval_minutes |-> NoneInt])
    /\ FfiInit
    /\ OldInit([default_city |-> NoneCity], FALSE)

Init == YoloInit /\ ImgInit /\ OrderInit /\ ExtInit

\* Concurrent host threads drive one YoloVideoProcessor.
Next ==
    \/ \E t \in Threads, id \in Ids, payload \in ConfigPayloads :
          /\ stats.sessions_created < MaxCreated
          /\ InitSessionCall(t, id, payload)
    \/ \E t \in Threads : InitSessionLock(t)
    \/ \E t \in Threads : InitSessionStats(t)
    \/ \E t \in Threads, id \in Ids, chunk \in MainChunks :
          /\ stats.total_frames_processed < MaxFrames
          /\ ProcessSessionChunkCall(t, id, chunk)
    \/ \E t \in Threads : ProcessSessionChunkLock(t)
    \/ \E t \in Threads, elapsed \in ElapsedMs : ProcessFrameStats(t, elapsed)
    \/ \E t \in Threads : ProcessFrameTrack(t)
    \/ \E t \in Threads : ProcessSessionChunkStats(t) /\ UNCHANGED orderVars
    \/ \E t \in Threads, id \in Ids : CloseSessionCall(t, id)
    \/ \E t \in Threads : CloseSessionLock(t)
    \/ \E t \in Threads : CloseSessionStats(t)

Spec == Init /\ [][Next]_vars

\* The capacity scenario: one caller opens and closes sessions over more ids
\* than the capability admits.
NextCap ==
    \/ \E t \in CapThreads, id \in CapIds :
          /\ stats.sessions_created < CapMaxCreated
          /\ InitSessionCall(t, id, NullPayload)
    \/ \E t \in CapThreads : InitSessionLock(t)
    \/ \E t \in CapThreads : InitSessionStats(t)
    \/ \E t \in CapThreads, id \in CapIds : CloseSessionCall(t, id)
    \/ \E t \in CapThreads : CloseSessionLock(t)
    \/ \E t \in CapThreads : CloseSessionStats(t)

SpecCap == Init /\ [][NextCap]_vars

\* The frame counters: two callers open, feed and close the sessions A and B
\* with default configurations and one kind of chunk.
NextFrames ==
    \/ \E t \in Threads, id \in Ids :
          /\ stats.sessions_created < MaxCreated
          /\ InitSessionCall(t, id, NullPayload)
    \/ \E t \in Threads : InitSessionLock(t)
    \/ \E t \in Threads : InitSessionStats(t)
    \/ \E t \in Threads, id \in Ids, chunk \in MetricsChunks :
          /\ stats.total_frames_processed < MaxFrames
          /\ ProcessSessionChunkCall(t, id, chunk)
    \/ \E t \in Threads : ProcessSessionChunkLock(t)
    \/ \E t \in Threads, elapsed \in MetricsElapsedMs : ProcessFrameStats(t, elapsed)
    \/ \E t \in Threads : ProcessFrameTrack(t)
    \/ \E t \in Threads : ProcessSessionChunkStats(t) /\ UNCHANGED orderVars
    \/ \E t \in Threads, id \in Ids : CloseSessionCall(t, id)
    \/ \E t \in Threads : CloseSessionLock(t)
    \/ \E t \in Threads : CloseSessionStats(t)

SpecFrames == Init /\ [][NextFrames]_vars

\* Concurrent host threads drive one ImageAnalyzer.
NextImg ==
    \/ \E t \in Threads, chunk \in ImgChunks :
          /\ imgStats.images_processed < MaxImages
          /\ ProcessChunkCall(t, chunk)
    \/ \E t \in Threads, elapsed \in ElapsedMs : ProcessChunkValidate(t, elapsed)
    \/ \E t \in Threads : AnalyzeImageLock(t)
    \/ \E t \in Threads : AnalyzeImageStats(t)
    \/ \E t \in Threads, command \in ImgCommandNames : ExecuteCommandCall(t, command)
    \/ \E t \in Threads : ExecuteCommandNotFound(t)
    \/ \E t \in Threads : ResetStatsLock(t)
    \/ \E t \in Threads : ResetStatsRest(t)

SpecImg == Init /\ [][NextImg]_vars

\* The stateless engine under process_chunk alone: no reset_stats.
NextImgCount ==
    \/ \E t \in Threads, c \in ImgChunks :
          imgStats.images_processed < MaxImages /\ ProcessChunkCall(t, c)
    \/ \E t \in Threads, e \in ElapsedMs : ProcessChunkValidate(t, e)
    \/ \E t \in Threads : AnalyzeImageLock(t)
    \/ \E t \in Threads : AnalyzeImageStats(t)

SpecImgCount == Init /\ [][NextImgCount]_vars

\* One caller feeds one session, chunk after chunk, with sequence numbers of
\* its choosing; the stream of results is recorded.
NextOrder ==
    \/ \E t \in OrderThreads, id \in OrderIds : InitSessionCall(t, id, NullPayload)
    \/ \E t \in OrderThreads : InitSessionLock(t)
    \/ \E t \in OrderThreads : InitSessionStats(t)
    \/ \E t \in OrderThreads, id \in OrderIds, chunk \in OrderChunks :
          /\ stats.total_frames_processed < OrderMaxFrames
          /\ ProcessSessionChunkCall(t, id, chunk)
    \/ \E t \in OrderThreads : ProcessSessionChunkLock(t)
    \/ \E t \in OrderThreads, elapsed \in ElapsedMs : ProcessFrameStats(t, elapsed)
    \/ \E t \in OrderThreads : ProcessFrameTrack(t)
    \/ \E t \in OrderThreads : ProcessSessionChunkStats(t) /\ ObserveResult(t)

SpecOrder == Init /\ [][NextOrder]_vars

\* Both streaming engines with produce_metrics among their calls; a caller
\* is in one call at a time.
NextMetrics ==
    \/ \E t \in Threads, id \in MetricsIds :
          /\ ipc[t] = "idle"
          /\ stats.sessions_created < MaxCreated
          /\ InitSessionCall(t, id, NullPayload)
    \/ \E t \in Threads : InitSessionLock(t)
    \/ \E t \in Threads : InitSessionStats(t)
    \/ \E t \in Threads, id \in MetricsIds, chunk \in MetricsChunks :
          /\ ipc[t] = "idle"
          /\ stats.total_frames_processed < MaxFrames
          /\ ProcessSessionChunkCall(t, id, chunk)
    \/ \E t \in Threads : ProcessSessionChunkLock(t)
    \/ \E t \in Threads, elapsed \in MetricsElapsedMs : ProcessFrameStats(t, elapsed)
    \/ \E t \in Threads : ProcessFrameTrack(t)
    \/ \E t \in Threads : ProcessSessionChunkStats(t) /\ UNCHANGED orderVars
    \/ \E t \in Threads, id \in MetricsIds :
          /\ ipc[t] = "idle"
          /\ CloseSessionCall(t, id)
    \/ \E t \in Threads : CloseSessionLock(t)
    \/ \E t \in Threads : CloseSessionStats(t)
    \/ \E t \in Threads :
          /\ ipc[t] = "idle"
          /\ ProduceMetricsCall(t)
    \/ \E t \in Threads : ProduceMetricsStats(t)
    \/ \E t \in Threads : ProduceMetricsSessions(t)
    \/ \E t \in MetricsImgThreads, chunk \in MetricsChunks :
          /\ pc[t] = "idle"
          /\ imgStats.images_processed < MaxImages
          /\ ProcessChunkCall(t, chunk)
    \/ \E t \in MetricsImgThreads, elapsed \in MetricsElapsedMs :
          ProcessChunkValidate(t, elapsed)
    \/ \E t \in MetricsImgThreads : AnalyzeImageLock(t)
    \/ \E t \in MetricsImgThreads : AnalyzeImageStats(t)
    \/ \E t \in MetricsImgThreads :
          /\ pc[t] = "idle"
          /\ ImgProduceMetricsCall(t)
    \/ \E t \in MetricsImgThreads : ImgProduceMetrics(t)

SpecMetrics == Init /\ [][NextMetrics]_vars

\* The caller is in no call on any extension.
Quiet(t) == pc[t] = "idle" /\ ipc[t] = "idle" /\ tpc[t] = "idle" /\ wpc[t] = "idle"

\* Arguments the host passes to the weather commands.
WxCommandArgs ==
    {[NoWxArg EXCEPT !.command = c, !.city = Some(Tokyo)] : c \in WxCommandNames}

\* One host drives the four extensions, commands among its calls.
NextCommands ==
    \/ \E t \in CommandThreads, id \in CommandIds :
          /\ Quiet(t)
          /\ stats.sessions_created < MaxCreated
          /\ InitSessionCall(t, id, NullPayload)
    \/ \E t \in CommandThreads : InitSessionLock(t)
    \/ \E t \in CommandThreads : InitSessionStats(t)
    \/ \E t \in CommandThreads, command \in YoloCommandNames, id \in CommandIds \cup {NoId} :
          /\ Quiet(t)
          /\ YoloExecuteCommandCall(t, command, id)
    \/ \E t \in CommandThreads : YoloExecuteCommandMatch(t)
    \/ \E t \in CommandThreads : GetSessionInfo(t)
    \/ \E t \in CommandThreads, chunk \in CommandChunks :
          /\ Quiet(t)
          /\ imgStats.images_processed < MaxImages
          /\ ProcessChunkCall(t, chunk)
    \/ \E t \in CommandThreads, elapsed \in MetricsElapsedMs :
          ProcessChunkValidate(t, elapsed)
    \/ \E t \in CommandThreads : AnalyzeImageLock(t)
    \/ \E t \in CommandThreads : AnalyzeImageStats(t)
    \/ \E t \in CommandThreads, command \in ImgCommandNamesHost :
          /\ Quiet(t)
          /\ ExecuteCommandCall(t, command)
    \/ \E t \in CommandThreads : ExecuteCommandNotFound(t)
    \/ \E t \in CommandThreads : ResetStatsLock(t)
    \/ \E t \in CommandThreads : ResetStatsRest(t)
    \/ \E t \in CommandThreads, command \in TplCommandNames :
          /\ Quiet(t)
          /\ TplExecuteCommandCall(t, command, Some("hi"))
    \/ \E t \in CommandThreads : TplExecuteCommandMatch(t)
    \/ \E t \in CommandThreads : Quiet(t) /\ TplProduceMetricsCall(t)
    \/ \E t \in CommandThreads : TplShouldCollectMetrics(t)
    \/ \E t \in CommandThreads : TplGenerateFreshMetrics(t)
    \/ \E t \in CommandThreads : TplReturnCached(t)
    \/ \E t \in CommandThreads, a \in WxCommandArgs :
          /\ Quiet(t)
          /\ WxExecuteCommandCall(t, a)
    \/ \E t \in CommandThreads : WxExecuteCommandMatch(t)
    \/ \E t \in CommandThreads : Quiet(t) /\ WxProduceMetricsCall(t)
    \/ \E t \in CommandThreads : WxShouldCollectMetrics(t)
    \/ \E t \in CommandThreads : WxGenerateFreshMetrics(t)
    \/ \E t \in CommandThreads : WxReturnCached(t)
    \/ \E d \in TickMs : now + d \in ClockInstants /\ Tick(d)

SpecCommands == Init /\ [][NextCommands]_vars

\* The stateful engine with get_session_info among its calls.
NextInfo ==
    \/ \E t \in Threads, id \in InfoIds :
          /\ stats.sessions_created < MaxCreated
          /\ InitSessionCall(t, id, NullPayload)
    \/ \E t \in Threads : InitSessionLock(t)
    \/ \E t \in Threads : InitSessionStats(t)
    \/ \E t \in Threads, id \in InfoIds, chunk \in MetricsChunks :
          /\ stats.total_frames_processed < MaxFrames
          /\ ProcessSessionChunkCall(t, id, chunk)
    \/ \E t \in Threads : ProcessSessionChunkLock(t)
    \/ \E t \in Threads, elapsed \in MetricsElapsedMs : ProcessFrameStats(t, elapsed)
    \/ \E t \in Threads : ProcessFrameTrack(t)
    \/ \E t \in Threads : ProcessSessionChunkStats(t) /\ UNCHANGED orderVars
    \/ \E t \in Threads, id \in InfoIds : CloseSessionCall(t, id)
    \/ \E t \in Threads : CloseSessionLock(t)
    \/ \E t \in Threads : CloseSessionStats(t)
    \/ \E t \in Threads, id \in InfoQueryIds :
          YoloExecuteCommandCall(t, "get_session_info", id)
    \/ \E t \in Threads : YoloExecuteCommandMatch(t)
    \/ \E t \in Threads : GetSessionInfo(t)

SpecInfo == Init /\ [][NextInfo]_vars

\* The stateful engine opened with every kind of configuration payload.
NextConfig ==
    \/ \E t \in Threads, id \in InfoIds, payload \in AllConfigPayloads :
          /\ stats.sessions_created < MaxCreated
          /\ InitSessionCall(t, id, payload)
    \/ \E t \in Threads : InitSessionLock(t)
    \/ \E t \in Threads : InitSessionStats(t)
    \/ \E t \in Threads, id \in InfoIds, chunk \in MetricsChunks :
          /\ stats.total_frames_processed < MaxFrames
          /\ ProcessSessionChunkCall(t, id, chunk)
    \/ \E t \in Threads : ProcessSessionChunkLock(t)
    \/ \E t \in Threads, elapsed \in MetricsElapsedMs : ProcessFrameStats(t, elapsed)
    \/ \E t \in Threads : ProcessFrameTrack(t)
    \/ \E t \in Threads : ProcessSessionChunkStats(t) /\ UNCHANGED orderVars
    \/ \E t \in Threads, id \in InfoIds : CloseSessionCall(t, id)
    \/ \E t \in Threads : CloseSessionLock(t)
    \/ \E t \in Threads : CloseSessionStats(t)

SpecConfig == Init /\ [][NextConfig]_vars

\* The stateful engine fed chunks within and outside the declared limits, on
\* sessions opened without a configuration.
NextValidation ==
    \/ \E t \in Threads, id \in InfoIds :
          /\ stats.sessions_created < MaxCreated
          /\ InitSessionCall(t, id, NullPayload)
    \/ \E t \in Threads : InitSessionLock(t)
    \/ \E t \in Threads : InitSessionStats(t)
    \/ \E t \in Threads, id \in InfoIds, chunk \in ValidationChunks :
          /\ stats.total_frames_processed < MaxFrames
          /\ ProcessSessionChunkCall(t, id, chunk)
    \/ \E t \in Threads : ProcessSessionChunkLock(t)
    \/ \E t \in Threads, elapsed \in MetricsElapsedMs : ProcessFrameStats(t, elapsed)
    \/ \E t \in Threads : ProcessFrameTrack(t)
    \/ \E t \in Threads : ProcessSessionChunkStats(t) /\ UNCHANGED orderVars
    \/ \E t \in Threads, id \in InfoIds : CloseSessionCall(t, id)
    \/ \E t \in Threads : CloseSessionLock(t)
    \/ \E t \in Threads : CloseSessionStats(t)

SpecValidation == Init /\ [][NextValidation]_vars

\* The stateful engine fed chunks of PayloadLen bytes.
NextBytes ==
    \/ \E t \in Threads, id \in InfoIds :
          /\ stats.sessions_created < MaxCreated
          /\ InitSessionCall(t, id, NullPayload)
    \/ \E t \in Threads : InitSessionLock(t)
    \/ \E t \in Threads : InitSessionStats(t)
    \/ \E t \in Threads, id \in InfoIds, chunk \in ByteChunks :
          /\ stats.total_frames_processed < MaxFrames
          /\ ProcessSessionChunkCall(t, id, chunk)
    \/ \E t \in Threads : ProcessSessionChunkLock(t)
    \/ \E t \in Threads, elapsed \in MetricsElapsedMs : ProcessFrameStats(t, elapsed)
    \/ \E t \in Threads : ProcessFrameTrack(t)
    \/ \E t \in Threads : ProcessSessionChunkStats(t) /\ UNCHANGED orderVars
    \/ \E t \in Threads, id \in InfoIds : CloseSessionCall(t, id)
    \/ \E t \in Threads : CloseSessionLock(t)
    \/ \E t \in Threads : CloseSessionStats(t)

SpecBytes == Init /\ [][NextBytes]_vars

\* The host loads the libraries: it asks each for its metadata, creates up
\* to MaxInstances instances and destroys them.
NextFfi ==
    \/ \E e \in Extensions : FfiMetadata(e)
    \/ \E e \in Extensions, payload \in FfiPayloads :
          /\ issued < MaxInstances
          /\ FfiCreate(e, payload)
    \/ \E h \in 0..MaxInstances : FfiDestroy(h)

SpecFfi == Init /\ [][NextFfi]_vars

\* A WeatherExtension created with any configuration, at ClockStart.
InitWxCollection ==
    /\ YoloInit /\ ImgInit /\ OrderInit /\ FfiInit
    /\ OldInit([default_city |-> NoneCity], FALSE)
    /\ now = ClockStart
    /\ TplInit([config_value |-> NoneStr, collection_interval_seconds |-> NoneInt])
    /\ \E config \in WxConfigs : WxInit(config)

\* Concurrent host threads ask the WeatherExtension for its metrics.
NextWxCollection ==
    \/ \E t \in Threads : WxProduceMetricsCall(t)
    \/ \E t \in Threads : WxShouldCollectMetrics(t)
    \/ \E t \in Threads : WxGenerateFreshMetrics(t)
    \/ \E t \in Threads : WxReturnCached(t)
    \/ \E n \in CollectionInstants : n > now /\ Tick(n - now)

SpecWxCollection == InitWxCollection /\ [][NextWxCollection]_vars

\* A TemplateExtension created with any configuration, at ClockStart.
InitTplCollection ==
    /\ YoloInit /\ ImgInit /\ OrderInit /\ FfiInit
    /\ OldInit([default_city |-> NoneCity], FALSE)
    /\ now = ClockStart
    /\ \E config \in TplConfigs : TplInit(config)
    /\ WxInit([default_city |-> NoneCity, update_interval_minutes |-> NoneInt])

\* Concurrent host threads ask the TemplateExtension for its metrics.
NextTplCollection ==
    \/ \E t \in Threads : TplProduceMetricsCall(t)
    \/ \E t \in Threads : TplShouldCollectMetrics(t)
    \/ \E t \in Threads : TplGenerateFreshMetrics(t)
    \/ \E t \in Threads : TplReturnCached(t)
    \/ \E n \in CollectionInstants : n > now /\ Tick(n - now)

SpecTplCollection == InitTplCollection /\ [][NextTplCollection]_vars

\* A WeatherExtension created with return_cached_between_updates = false, at
\* ClockStart: the constructor reads default_city and update_interval_minutes
\* and nothing else.
WxConfigsNoCache ==
    {[default_city |-> NoneCity, update_interval_minutes |-> i,
      return_cached_between_updates |-> Some(FALSE)] : i \in {NoneInt, Some(1)}}

InitWxNoCache ==
    /\ YoloInit /\ ImgInit /\ OrderInit /\ FfiInit
    /\ OldInit([default_city |-> NoneCity], FALSE)
    /\ now = ClockStart
    /\ TplInit([config_value |-> NoneStr, collection_interval_seconds |-> NoneInt])
    /\ \E config \in WxConfigsNoCache : WxInit(config)

SpecWxNoCache == InitWxNoCache /\ [][NextWxCollection]_vars

\* The older weather extension, created with or without a default city in
\* either build, and called by one host.
InitOld ==
    /\ YoloInit /\ ImgInit /\ OrderInit /\ FfiInit
    /\ now = ClockStart
    /\ TplInit([config_value |-> NoneStr, collection_interval_seconds |-> NoneInt])
    /\ WxInit([default_city |-> NoneCity, update_interval_minutes |-> NoneInt])
    /\ \E city \in {NoneCity, Some(Tokyo)}, checks \in BOOLEAN :
          OldInit([default_city |-> city], checks)

NextOld ==
    \/ \E city \in OldCityArgs : OldRefresh(city)
    \/ \E city \in OldCityArgs : OldSetCity(city)
    \/ \E city \in OldCityArgs : OldQueryWeather(city)
    \/ OldProduceMetrics

SpecOld == InitOld /\ [][NextOld]_vars

\* Callers ask the WeatherExtension for forecasts.
NextForecast ==
    \/ \E t \in Threads, city \in {NoneCity, Some(Tokyo)},
          days \in {NoneInt} \cup {Some(n) : n \in ForecastDays} :
          WxExecuteCommandCall(t, [NoWxArg EXCEPT !.command = "forecast_summary",
                                                  !.city = city, !.days = days])
    \/ \E t \in Threads : WxExecuteCommandMatch(t)

SpecForecast == Init /\ [][NextForecast]_vars

\* A WeatherExtension whose default city is any of the city names.
InitCities ==
    /\ YoloInit /\ ImgInit /\ OrderInit /\ FfiInit
    /\ OldInit([default_city |-> NoneCity], FALSE)
    /\ now = ClockStart
    /\ TplInit([config_value |-> NoneStr, collection_interval_seconds |-> NoneInt])
    /\ \E city \in CityNames :
          WxInit([default_city |-> Some(city), update_interval_minutes |-> NoneInt])

\* One caller asks it for its metrics.
NextCities ==
    \/ \E t \in CommandThreads : WxProduceMetricsCall(t)
    \/ \E t \in CommandThreads : WxShouldCollectMetrics(t)
    \/ \E t \in CommandThreads : WxGenerateFreshMetrics(t)
    \/ \E t \in CommandThreads : WxReturnCached(t)

SpecCities == InitCities /\ [][NextCities]_vars

\* =============================================================== claims
AllIdle == \A t \in Threads : pc[t] = "idle"

\* C1: init_session with an id already in the registry returns
\* SessionAlreadyExists and changes nothing: the registry (ids and every
\* accumulator) and the global counters are as before the call.
C1_InitExistingRejected ==
    [][\A t \in Threads :
         (pc[t] = "init_lock" /\ pc'[t] # "init_lock" /\ arg[t].id \in DOMAIN sessions)
         => /\ pc'[t] = "idle"
            /\ ret'[t] = Err("init_session", "SessionAlreadyExists", arg[t].id)
            /\ sessions' = sessions
            /\ stats' = stats]_vars

\* A second init_session was rejected on a session that has processed a chunk.
C1_Witness ==
    \E t \in Threads :
        /\ ret[t].err = "SessionAlreadyExists"
        /\ ret[t].id \in DOMAIN sessions
        /\ sessions[ret[t].id].frame_count > 0

\* C2: once close_session(id) has succeeded and until a later
\* init_session(id) succeeds, every process_session_chunk(id, _) that looks
\* the session up returns SessionNotFound, whatever else happened meanwhile.
C2_ClosedStaysNotFound ==
    [][\A t \in Threads :
         (pc[t] = "proc_lock" /\ pc'[t] # "proc_lock" /\ closed[arg[t].id])
         => /\ pc'[t] = "idle"
            /\ ret'[t] = Err("process_session_chunk", "SessionNotFound", arg[t].id)]_vars

\* A chunk for a closed session was refused while another session was open.
C2_Witness ==
    \E t \in Threads :
        /\ ret[t].op = "process_session_chunk"
        /\ ret[t].err = "SessionNotFound"
        /\ closed[ret[t].id]
        /\ DOMAIN sessions # {}

\* C3: the registry never holds more than max_concurrent_sessions sessions
\* (init_session fails with a capacity error once that many are open).
C3_CapacityEnforced == Cardinality(DOMAIN sessions) <= MaxConcurrentSessions

\* C4: a successful process_session_chunk returns output_sequence equal to
\* the session's frame counter right after its increment, and input_sequence
\* equal to chunk.sequence.
C4_OutputIsFrameCounter ==
    [][\A t \in Threads :
         (pc[t] = "proc_stats" /\ pc'[t] = "idle")
         => /\ ret'[t].kind = "Ok"
            /\ ret'[t].output_sequence = counted[t]
            /\ ret'[t].input_sequence = arg[t].chunk.sequence]_vars

\* C5: when every call has returned, each open session's frame counter is the
\* number of chunk calls made on it since its init_session: no increment is
\* lost, and none lands in another session.
C5_FrameCountersExact ==
    AllIdle => \A id \in DOMAIN sessions : sessions[id].frame_count = accepted[id]

\* Two sessions have been fed by the callers, one of them twice.
C5_Witness ==
    /\ AllIdle
    /\ DOMAIN sessions = Ids
    /\ \A id \in Ids : sessions[id].frame_count >= 1
    /\ \E id \in Ids : sessions[id].frame_count >= 2

\* C6: close_session never removes a record that a chunk call is mutating:
\* while a call is inside process_frame its session is registered and no
\* close of it is under way, and a record that close_session has removed is
\* whole: it counts every chunk call that found the session, and its tally
\* adds up to its detection total.
C6_CloseAtomicWithChunk ==
    /\ \A t \in Threads :
          pc[t] \in {"proc_frame", "proc_track"}
          => /\ arg[t].id \in DOMAIN sessions
             /\ \A u \in Threads \ {t} :
                   ~(pc[u] = "close_stats" /\ arg[u].id = arg[t].id)
    /\ \A u \in Threads :
          pc[u] = "close_stats"
          => /\ SessionStatsOf(local[u].session).input_chunks = accepted[arg[u].id]
             /\ SumOver(local[u].session.detected_objects,
                        DOMAIN local[u].session.detected_objects)
                  = local[u].session.total_detections

\* A close_session is waiting while a chunk of the same session is half counted.
C6_Witness ==
    \E t, u \in Threads :
        /\ pc[t] = "proc_track"
        /\ pc[u] = "close_lock"
        /\ arg[u].id = arg[t].id
        /\ Len(local[t].detections) > 0

\* C7: a process_session_chunk call never has to wait for a call that is
\* processing a chunk of a different session: the registry lock is free for it.
C7_NoCrossSessionWait ==
    \A t, u \in Threads :
        (/\ pc[t] = "proc_lock"
         /\ pc[u] \in {"proc_frame", "proc_track"}
         /\ arg[t].id # arg[u].id)
        => LockFree(sessionsLock)

C9_OversizedRejected ==
    [][\A t \in Threads :
         (/\ ipc[t] # "idle" /\ ipc'[t] = "idle"
          /\ iarg[t].op = "process_chunk"
          /\ iarg[t].chunk.data_type = Image("jpeg"))
         => IF iarg[t].chunk.len <= ImgMaxChunkSize
            THEN iret'[t].kind = "Ok"
            ELSE iret'[t].kind = "Err" /\ iret'[t].err = "InvalidStreamData"]_vars

\* C10: a process_chunk call on a chunk of a supported data_type within
\* max_chunk_size ends in success, with output_sequence and input_sequence
\* both equal to chunk.sequence.
C10_StatelessSequenceEcho ==
    [][\A t \in Threads :
         (/\ ipc[t] # "idle" /\ ipc'[t] = "idle"
          /\ iarg[t].op = "process_chunk"
          /\ iarg[t].chunk.data_type \in ImgSupportedDataTypes
          /\ iarg[t].chunk.len <= ImgMaxChunkSize)
         => /\ iret'[t].kind = "Ok"
            /\ iret'[t].output_sequence = iarg[t].chunk.sequence
            /\ iret'[t].input_sequence = iarg[t].chunk.sequence]_vars

\* A chunk numbered 1 that carries a JPEG signature was answered when two
\* images had been counted.
C10_Witness ==
    \E t \in Threads :
        /\ iret[t].kind = "Ok"
        /\ iret[t].op = "process_chunk"
        /\ iret[t].output_sequence = 1
        /\ iret[t].result.dominant_color = "#808080"
        /\ imgStats.images_processed = 2

AllImgIdle == \A t \in Threads : ipc[t] = "idle"

\* C11: with no reset_stats, images_processed counts every process_chunk
\* call that succeeded, however the calls overlapped: when all N calls have
\* returned it is N, and meanwhile it lags only by the calls still waiting
\* for or holding the stats lock.
C11_ImagesProcessedExact ==
    imgStats.images_processed
      + Cardinality({t \in Threads : ipc[t] \in {"analyze_lock", "analyze_stats"}})
    = imgAccepted

\* Two overlapping calls (the second passed its type check before the first
\* had written the counters) have both returned.
C11_Witness ==
    /\ AllImgIdle
    /\ imgStats.images_processed = 2
    /\ \A t \in Threads : iret[t].kind = "Ok" /\ iret[t].op = "process_chunk"

\* C12: after close_session(id) has returned Ok, and with no init_session(id)
\* since, an init_session(id) that reaches the registry registers the id
\* again with a fresh accumulator (no frames, no processing time, no
\* detections, an empty tally, no last frame) and then returns Ok.
C12_ReinitAfterClose ==
    [][\A t \in Threads :
         /\ (pc[t] = "init_lock" /\ pc'[t] # "init_lock" /\ closed[arg[t].id])
            => /\ pc'[t] = "init_stats"
               /\ arg[t].id \in DOMAIN sessions'
               /\ sessions'[arg[t].id].frame_count = 0
               /\ sessions'[arg[t].id].total_processing_time_ms = 0
               /\ sessions'[arg[t].id].total_detections = 0
               /\ sessions'[arg[t].id].last_frame_time = "None"
               /\ DOMAIN sessions'[arg[t].id].detected_objects = {}
         /\ (pc[t] = "init_stats" /\ pc'[t] # "init_stats")
            => ret'[t] = Ok("init_session")]_vars

\* An id is being registered for the second time (the other id was never
\* used), and its first session processed a chunk before it was closed.
C12_Witness ==
    \E t \in Threads :
        /\ pc[t] = "init_stats"
        /\ sessions[arg[t].id].frame_count = 0
        /\ stats.sessions_created = 1
        /\ stats.total_frames_processed >= 1
        /\ \A id \in Ids \ {arg[t].id} : id \notin DOMAIN sessions /\ ~closed[id]

\* C13: close_session on an id that is not in the registry returns
\* SessionNotFound and changes neither the registry nor the global counters.
C13_CloseAbsentRejected ==
    [][\A t \in Threads :
         (pc[t] = "close_lock" /\ pc'[t] # "close_lock"
            /\ arg[t].id \notin DOMAIN sessions)
         => /\ pc'[t] = "idle"
            /\ ret'[t].kind = "Err"
            /\ ret'[t].err = "SessionNotFound"
            /\ sessions' = sessions
            /\ stats' = stats]_vars

\* A close of a never-registered id was refused while the other session,
\* which has processed a chunk, stayed open.
C13_Witness ==
    \E t \in Threads :
        /\ ret[t].op = "close_session"
        /\ ret[t].err = "SessionNotFound"
        /\ ~closed[ret[t].id]
        /\ ret[t].id \notin DOMAIN sessions
        /\ \E id \in DOMAIN sessions : sessions[id].frame_count >= 1

\* C14: process_session_chunk on an id that was never initialised returns
\* SessionNotFound, registers no session, and leaves every accumulator and
\* the global counters unchanged.
C14_ChunkWithoutInitRejected ==
    [][\A t \in Threads :
         (pc[t] = "proc_lock" /\ pc'[t] # "proc_lock"
            /\ arg[t].id \notin DOMAIN sessions /\ ~closed[arg[t].id])
         => /\ pc'[t] = "idle"
            /\ ret'[t].kind = "Err"
            /\ ret'[t].err = "SessionNotFound"
            /\ sessions' = sessions
            /\ stats' = stats]_vars

\* A chunk for a never-registered id was refused while the other session,
\* which has processed a chunk, stayed open.
C14_Witness ==
    \E t \in Threads :
        /\ ret[t].op = "process_session_chunk"
        /\ ret[t].err = "SessionNotFound"
        /\ ~closed[ret[t].id]
        /\ ret[t].id \notin DOMAIN sessions
        /\ \E id \in DOMAIN sessions : sessions[id].frame_count >= 1

\* C17: the init_session that succeeds raises stats.active_sessions by one
\* and the close_session that succeeds lowers it by one, and whenever no
\* caller holds the registry lock stats.active_sessions is the number of
\* sessions in the registry.
C17_ActiveSessionsTracksRegistry ==
    [][/\ \A t \in Threads :
            /\ (pc[t] = "init_stats" /\ pc'[t] = "idle")
               => stats'.active_sessions = stats.active_sessions + 1
            /\ (pc[t] = "close_stats" /\ pc'[t] = "idle")
               => stats'.active_sessions = stats.active_sessions - 1
       /\ (sessionsLock' = NoThread)
            => stats'.active_sessions = Cardinality(DOMAIN sessions')]_vars

\* Two sessions were opened and one of them has been closed.
C17_Witness ==
    /\ sessionsLock = NoThread
    /\ stats.sessions_created = 2
    /\ stats.active_sessions = 1
    /\ \E t \in Threads : ret[t].op = "close_session" /\ ret[t].kind = "Ok"

\* C18: a process_chunk that returns an error returns it before the engine's
\* counters are touched, and leaves them as they are; a step of process_chunk
\* that changes the counters is the step of a call returning Ok. (The only
\* other writer of the counters is reset_stats.)
C18_CountersOnlyOnSuccess ==
    [][/\ \A t \in Threads :
            (iarg[t].op = "process_chunk" /\ ipc'[t] = "idle" /\ iret'[t].kind = "Err")
            => /\ ipc[t] = "validate"
               /\ imgStats' = imgStats
       /\ (imgStats' # imgStats)
            => \E t \in Threads :
                  \/ /\ iarg[t].op = "process_chunk"
                     /\ ipc[t] = "analyze_stats"
                     /\ iret'[t].kind = "Ok"
                  \/ /\ iarg[t].op = "execute_command"
                     /\ ipc[t] \in {"reset_lock", "reset_stats"}
                     /\ ipc'[t] # ipc[t]]_vars

\* A chunk was refused after another one had been counted, and the counters
\* still show exactly the counted one.
C18_Witness ==
    \E t \in Threads :
        /\ iret[t].op = "process_chunk"
        /\ iret[t].kind = "Err"
        /\ imgStats.images_processed = 1
        /\ imgAccepted = 1
        /\ imgStats.detections_found = 1

NonDecreasing(s) == \A i, j \in 1..Len(s) : i < j => s[i] <= s[j]
StrictlyIncreasing(s) == \A i, j \in 1..Len(s) : i < j => s[i] < s[j]

\* C15: the output_sequence values of a session's results, in the order the
\* results are produced, never decrease, whatever chunk.sequence values the
\* caller supplies.
C15_OutputNonDecreasing ==
    \A id \in Ids : NonDecreasing(produced[id])

\* C16: a session fed chunks whose sequence numbers strictly increase, one
\* after the other, produces results whose output_sequence strictly
\* increases.
C16_IncreasingInIncreasingOut ==
    \A id \in Ids : StrictlyIncreasing(fed[id]) => StrictlyIncreasing(produced[id])

\* The session was fed the sequence numbers 1, 2, 3 in that order.
C16_Witness ==
    /\ fed["A"] = <<1, 2, 3>>
    /\ produced["A"] = <<1, 2, 3>>
    /\ sessions["A"].frame_count = 3

\* C19: produce_metrics of YoloVideoProcessor and of ImageAnalyzer is
\* read-only: from its call to its return no step of it changes the session
\* registry, a session accumulator or a global counter, and what it returns
\* is what the counters hold.
C19_ProduceMetricsReadOnly ==
    [][/\ \A t \in Threads :
            (arg[t].op = "produce_metrics" /\ pc'[t] # pc[t])
            => /\ sessions' = sessions
               /\ stats' = stats
               /\ (pc'[t] = "idle")
                  => /\ ret'[t].metrics.active_sessions = Cardinality(DOMAIN sessions)
                     /\ ret'[t].metrics.total_frames_processed
                          = stats.total_frames_processed
       /\ \A t \in Threads :
            (iarg[t].op = "produce_metrics" /\ ipc'[t] # ipc[t])
            => /\ imgStats' = imgStats
               /\ iret'[t].metrics.images_processed = imgStats.images_processed
               /\ iret'[t].metrics.total_detections = imgStats.detections_found]_vars

\* Both engines have reported non-zero counters, the stateful one with a
\* session open and time spent in it.
C19_Witness ==
    /\ \E t \in Threads :
          /\ ret[t].op = "produce_metrics"
          /\ ret[t].metrics.active_sessions = 1
          /\ ret[t].metrics.total_frames_processed >= 1
          /\ ret[t].metrics.avg_fps.num > 0
    /\ \E t \in Threads :
          /\ iret[t].op = "produce_metrics"
          /\ iret[t].metrics.images_processed >= 1

\* The names each extension declares in its COMMANDS.
YoloCommands == {"get_session_info"}
ImgCommands == {"reset_stats"}
TplCommands == {"example_command"}
WxCommands == {"query_weather", "refresh", "forecast_summary"}

\* Everything the four extensions keep, locks included.
ExtensionState ==
    <<sessions, stats, sessionsLock, statsLock, imgStats, imgLock, tplState, wxState>>

\* C20: in each of the four extensions, and whatever state it is in,
\* execute_command with a name the extension does not declare returns
\* CommandNotFound carrying that name, and from its call to its return no
\* extension's state changes.
C20_UnknownCommandRejected ==
    [][\A t \in Threads :
         /\ (arg[t].op = "execute_command" /\ arg[t].command \notin YoloCommands
               /\ pc'[t] # pc[t])
            => /\ pc'[t] = "idle"
               /\ ret'[t].kind = "Err" /\ ret'[t].err = "CommandNotFound"
               /\ ret'[t].what = arg[t].command
               /\ ExtensionState' = ExtensionState
         /\ (iarg[t].op = "execute_command" /\ iarg[t].command \notin ImgCommands
               /\ ipc'[t] # ipc[t])
            => /\ ipc'[t] = "idle"
               /\ iret'[t].kind = "Err" /\ iret'[t].err = "CommandNotFound"
               /\ iret'[t].what = iarg[t].command
               /\ ExtensionState' = ExtensionState
         /\ (targ[t].op = "execute_command" /\ targ[t].command \notin TplCommands
               /\ tpc'[t] # tpc[t])
            => /\ tpc'[t] = "idle"
               /\ tret'[t].kind = "Err" /\ tret'[t].err = "CommandNotFound"
               /\ tret'[t].what = targ[t].command
               /\ ExtensionState' = ExtensionState
         /\ (warg[t].op = "execute_command" /\ warg[t].command \notin WxCommands
               /\ wpc'[t] # wpc[t])
            => /\ wpc'[t] = "idle"
               /\ wret'[t].kind = "Err" /\ wret'[t].err = "CommandNotFound"
               /\ wret'[t].what = warg[t].command
               /\ ExtensionState' = ExtensionState]_vars

\* Each extension has refused a name that another extension declares, after
\* its own state had moved on from what it was created with.
C20_Witness ==
    \E t \in Threads :
        /\ ret[t].err = "CommandNotFound" /\ ret[t].what = "reset_stats"
        /\ iret[t].err = "CommandNotFound" /\ iret[t].what = "refresh"
        /\ tret[t].err = "CommandNotFound" /\ tret[t].what = "get_session_info"
        /\ wret[t].err = "CommandNotFound" /\ wret[t].what = "example_command"
        /\ DOMAIN sessions # {}
        /\ imgStats.images_processed >= 1
        /\ tplState.cached_value # 4200
        /\ wxState.cached_metrics # <<>>

\* C21: get_session_info returns SessionNotFound for an id that is not in the
\* registry, be it never opened or already closed, and the info of the
\* session for an id that is; in neither case does a step of the command
\* create or modify a session, or change a global counter.
C21_SessionInfoReadOnly ==
    [][\A t \in Threads :
         (arg[t].op = "execute_command" /\ pc'[t] # pc[t])
         => /\ sessions' = sessions
            /\ stats' = stats
            /\ (pc[t] = "info_lock" /\ arg[t].id \notin DOMAIN sessions)
               => /\ ret'[t].kind = "Err"
                  /\ ret'[t].err = "SessionNotFound"
            /\ (pc[t] = "info_lock" /\ arg[t].id \in DOMAIN sessions)
               => /\ ret'[t].kind = "Ok"
                  /\ ret'[t].info.session_id = arg[t].id
                  /\ ret'[t].info.frame_count = sessions[arg[t].id].frame_count
                  /\ ret'[t].info.total_detections
                       = sessions[arg[t].id].total_detections]_vars

\* One query was refused for a session that had processed a chunk and was
\* then closed, another for an id that was never opened.
C21_Witness ==
    \E t, u \in Threads :
        /\ ret[t].op = "execute_command" /\ ret[t].err = "SessionNotFound"
        /\ ret[t].id = "A" /\ closed["A"] /\ stats.total_frames_processed >= 1
        /\ ret[u].op = "execute_command" /\ ret[u].err = "SessionNotFound"
        /\ ret[u].id = "B"

\* C22: init_session with a missing or a malformed configuration payload
\* does not fail: on an id that is free it registers the session with
\* VideoConfig::default() and returns Ok, and a process_session_chunk that
\* finds a session so configured counts the frame and returns Ok like on any
\* other session.
C22_BadConfigFallsBack ==
    [][\A t \in Threads :
         /\ (pc[t] = "init_lock" /\ pc'[t] # "init_lock"
               /\ arg[t].payload.kind \in {"null", "partial"}
               /\ arg[t].id \notin DOMAIN sessions)
            => /\ pc'[t] = "init_stats"
               /\ arg[t].id \in DOMAIN sessions'
               /\ sessions'[arg[t].id].config = DefaultConfig
         /\ (pc[t] = "init_stats" /\ pc'[t] # "init_stats")
            => ret'[t] = Ok("init_session")
         /\ (pc[t] = "proc_lock" /\ pc'[t] # "proc_lock"
               /\ arg[t].id \in DOMAIN sessions
               /\ sessions[arg[t].id].config = DefaultConfig)
            => pc'[t] = "proc_frame"
         /\ (pc[t] = "proc_frame" /\ pc'[t] # "proc_frame")
            => sessions'[arg[t].id].frame_count = sessions[arg[t].id].frame_count + 1
         /\ (pc[t] = "proc_stats" /\ pc'[t] # "proc_stats")
            => ret'[t].kind = "Ok"]_vars

\* A session opened with a malformed configuration is being registered.
C22_WitnessInit ==
    \E t \in Threads :
        /\ pc[t] = "init_stats"
        /\ arg[t].payload.kind = "partial"
        /\ sessions[arg[t].id].config = DefaultConfig

\* A session with the default configuration has processed two chunks.
C22_Witness ==
    \E t \in Threads :
        /\ ret[t].op = "process_session_chunk" /\ ret[t].kind = "Ok"
        /\ "A" \in DOMAIN sessions
        /\ sessions["A"].config = DefaultConfig
        /\ sessions["A"].frame_count = 2

\* C23: process_session_chunk on an open session answers a chunk longer than
\* max_chunk_size, or of a data type that is not supported, with
\* InvalidStreamData, and leaves the session as it was.
C23_InvalidChunkRejected ==
    [][\A t \in Threads :
         (/\ pc[t] = "proc_lock" /\ pc'[t] # "proc_lock"
          /\ arg[t].id \in DOMAIN sessions
          /\ \/ arg[t].chunk.len > YoloMaxChunkSize
             \/ arg[t].chunk.data_type \notin YoloSupportedDataTypes)
         => /\ pc'[t] = "idle"
            /\ ret'[t].kind = "Err"
            /\ ret'[t].err = "InvalidStreamData"
            /\ sessions' = sessions]_vars

\* C24: no step of an init_session call removes a session from the registry
\* or changes the record of a session that is in it; the registry may hold
\* more than max_concurrent_sessions entries, none is evicted to make room.
C24_InitNeverEvicts ==
    [][\A t \in CapThreads :
         (\/ pc[t] = "idle" /\ pc'[t] = "init_lock"
          \/ pc[t] = "init_lock" /\ pc'[t] # "init_lock"
          \/ pc[t] = "init_stats" /\ pc'[t] # "init_stats")
         => \A id \in DOMAIN sessions :
               /\ id \in DOMAIN sessions'
               /\ sessions'[id] = sessions[id]]_vars

\* An init_session has returned Ok and the registry holds one session more
\* than max_concurrent_sessions: the earlier ones are all still there.
C24_Witness ==
    /\ SessionsLen(sessions) = MaxConcurrentSessions + 1
    /\ \E t \in CapThreads :
          /\ pc[t] = "idle"
          /\ ret[t] = Ok("init_session")

\* C27: the summary a successful close_session returns has input_chunks and
\* output_chunks equal to the number of process_session_chunk calls that
\* found the session since its init_session, and each of those calls
\* returns Ok.
C27_SummaryCountsChunks ==
    [][\A t \in Threads :
         /\ (pc[t] = "close_stats" /\ pc'[t] = "idle")
            => /\ ret'[t].kind = "Ok"
               /\ ret'[t].summary.input_chunks = accepted[arg[t].id]
               /\ ret'[t].summary.output_chunks = accepted[arg[t].id]
         /\ (pc[t] = "proc_lock" /\ pc'[t] # "proc_lock"
               /\ arg[t].id \in DOMAIN sessions)
            => pc'[t] = "proc_frame"
         /\ (pc[t] \in {"proc_frame", "proc_track"} /\ pc'[t] # pc[t])
            => pc'[t] \in {"proc_track", "proc_stats"}
         /\ (pc[t] = "proc_stats" /\ pc'[t] # "proc_stats")
            => pc'[t] = "idle" /\ ret'[t].kind = "Ok"]_vars

\* A session that took two chunks was closed, and one that took none.
C27_Witness ==
    \E t, u \in Threads :
        /\ ret[t].op = "close_session" /\ ret[t].kind = "Ok"
        /\ ret[t].summary.input_chunks = 2
        /\ ret[t].summary.output_chunks = 2
        /\ ret[u].op = "close_session" /\ ret[u].kind = "Ok"
        /\ ret[u].summary.input_chunks = 0

\* C28: the summary a successful close_session returns has input_bytes equal
\* to the sum of the payload lengths of the chunks the session processed;
\* every chunk of this scenario carries PayloadLen bytes.
C28_SummarySumsBytes ==
    [][\A t \in Threads :
         (pc[t] = "close_stats" /\ pc'[t] = "idle")
         => ret'[t].summary.input_bytes = accepted[arg[t].id] * PayloadLen]_vars

\* C25: neomind_extension_create returns a non-null handle of a live
\* instance for a null pointer, a zero length, text that is not JSON and a
\* well-formed document alike; the live instances are the handles created and
\* not yet passed to neomind_extension_destroy, so none remains once each
\* handle was passed to it once.
C25_CreateDestroyBalanced ==
    /\ (fret.op = "create" /\ ~Undefined(fret.payload))
       => /\ fret.kind = "Ok"
          /\ fret.handle # NullHandle
          /\ fret.handle \in DOMAIN instances
          /\ instances[fret.handle].extension = fret.extension
    /\ DOMAIN instances = (1..issued) \ destroyed
    /\ destroyed = 1..issued => DOMAIN instances = {}

\* Two instances, one created from text that is not JSON and one from a
\* well-formed document, were both destroyed.
C25_Witness ==
    /\ issued = 2
    /\ {made[h] : h \in 1..2} = {"malformed", "json"}
    /\ destroyed = {1, 2}
    /\ fret.op = "destroy"
    /\ DOMAIN instances = {}

\* An instance was created from a null pointer while another was live.
C25_WitnessNull ==
    /\ fret.op = "create" /\ fret.payload.is_null
    /\ fret.handle = 2
    /\ 1 \in DOMAIN instances

\* C26: in every extension neomind_extension_metadata returns normally, and
\* each of the five identity strings of the structure it returns is
\* NUL-terminated.
C26_MetadataNulTerminated ==
    fret.op = "metadata"
    => /\ fret.kind = "Ok"
       /\ \A f \in IdentityFields : NulTerminated(fret.metadata[f])

\* The four metrics of the weather extension, in the order it lists them.
FourMetrics(metrics) ==
    /\ Len(metrics) = 4
    /\ [i \in 1..4 |-> metrics[i].name]
         = <<"temperature_c", "humidity_percent", "wind_speed_kmph",
             "cloud_cover_percent">>

C29_WitnessCached ==
    \E t \in Threads :
        /\ wpc[t] = "cached"
        /\ wxState.cached_metrics # <<>>
        /\ now = ClockStart + 59000
        /\ wxState.collection_interval_seconds = 60

\* C30: a produce_metrics call on the TemplateExtension generates a fresh
\* value exactly when, by the clock reading of the call, at least
\* collection_interval_seconds have passed since the last collection (or the
\* creation); a call made earlier returns the stored value and leaves
\* cached_value and last_collection_timestamp as they are; with an interval
\* of 0 every call generates a fresh value.
C30_FreshWhenIntervalElapsed ==
    [][\A t \in Threads :
         /\ (tpc[t] = "should_collect" /\ tpc'[t] # "should_collect")
            => /\ tpc'[t] = "generate"
                    <=> targ[t].now - tplState.last_collection_timestamp
                          >= tplState.collection_interval_seconds
               /\ tplState.collection_interval_seconds = 0 => tpc'[t] = "generate"
               /\ tpc'[t] # "generate" => tpc'[t] = "cached" /\ tplState' = tplState
         /\ (tpc[t] = "cached" /\ tpc'[t] # "cached")
            => /\ tret'[t].kind = "Ok"
               /\ tret'[t].metrics = TplMetric(tplState.cached_value, now)
               /\ tplState' = tplState
         /\ (tpc[t] = "generate" /\ tpc'[t] # "generate")
            => /\ tret'[t].kind = "Ok"
               /\ tret'[t].metrics = TplMetric(4200 + (now % 1000), now)
               /\ tplState'.cached_value = 4200 + (now % 1000)]_vars

\* C31: with return_cached_between_updates = false (the configuration of
\* this scenario), a produce_metrics call on the WeatherExtension that finds
\* the update interval not elapsed returns an empty list.
C31_NoMetricsBetweenUpdates ==
    [][\A t \in Threads :
         (wpc[t] = "cached" /\ wpc'[t] # "cached")
         => /\ wpc'[t] = "idle"
            /\ wret'[t].kind = "Ok"
            /\ wret'[t].metrics = <<>>]_vars

\* C32: after set_city has succeeded with city c, the default city is c, and
\* a refresh issued without a city argument returns data for c.
C32_SetCityTakesEffect ==
    /\ lastSet.some => oldState.default_city = lastSet.v
    /\ (oret.op = "refresh" /\ oret.kind = "Ok" /\ ~oret.city.some /\ lastSet.some)
       => oret.data.city = lastSet.v

\* C36: in the older weather implementation every answer that carries
\* weather data is computed without a panic, and its temperature is the
\* number (hash % 40) - 10 of the city, between -10 and 30.
C36_OldTemperatureInRange ==
    (oret.op \in {"refresh", "query_weather", "produce_metrics"} /\ oret.kind # "Err")
    => /\ oret.kind = "Ok"
       /\ oret.data.temperature.hi = 0
       /\ oret.data.temperature.lo
            = HashMod(HashFold(U32(0, 0), oret.data.city), 40) - 10
       /\ oret.data.temperature.lo <= 30

\* C33: forecast_summary with days = n (3 when days is absent) returns Ok
\* with forecast_days = n and exactly n entries, numbered 1..n in order.
C33_ForecastHasNDays ==
    [][\A t \in Threads :
         (wpc[t] = "command" /\ wpc'[t] = "idle"
            /\ warg[t].command = "forecast_summary")
         => LET n == UnwrapOr(warg[t].days, 3)
            IN  /\ wret'[t].kind = "Ok"
                /\ wret'[t].forecast.forecast_days = n
                /\ Len(wret'[t].forecast.forecasts) = n
                /\ \A day \in 1..n : wret'[t].forecast.forecasts[day].day = day]_vars

\* The declared ranges of the four metrics (temperatures in hundredths).
InDeclaredRanges(metrics) ==
    /\ metrics[1].value >= -5000 /\ metrics[1].value <= 6000
    /\ metrics[2].value >= 0 /\ metrics[2].value <= 100
    /\ metrics[3].value >= 0
    /\ metrics[4].value >= 0 /\ metrics[4].value <= 100

\* C34: whatever the default city, the metrics the weather-forecast
\* extension returns and caches are those of the city name's hash and lie in
\* their declared ranges: temperature -50..60, humidity 0..100, wind speed
\* not negative, cloud cover 0..100.
C34_MetricsInRange ==
    /\ \A t \in CommandThreads :
          (wret[t].op = "produce_metrics" /\ wret[t].kind = "Ok")
          => /\ FourMetrics(wret[t].metrics)
             /\ InDeclaredRanges(wret[t].metrics)
             /\ LET hash == HashFold(U32(0, 0), wxState.default_city)
                IN  /\ wret[t].metrics[1].value = (HashMod(hash, 40) - 10) * 100
                    /\ wret[t].metrics[2].value = 30 + HashMod(hash, 60)
                    /\ wret[t].metrics[3].value = HashMod(hash, 20)
                    /\ wret[t].metrics[4].value = HashMod(hash, 100)
    /\ wxState.cached_metrics # <<>> => InDeclaredRanges(wxState.cached_metrics)

\* The metrics of Shanghai, whose hash 3612225835 is above 2^31, were returned.
C34_Witness ==
    \E t \in CommandThreads :
        /\ wxState.default_city = Shanghai
        /\ wret[t].op = "produce_metrics" /\ wret[t].kind = "Ok"
        /\ wret[t].metrics[1].value = 2500
        /\ wret[t].metrics[2].value = 85

\* The metrics of the empty name (hash 0) were returned: the lowest values.
C34_WitnessLowest ==
    \E t \in CommandThreads :
        /\ wxState.default_city = <<>>
        /\ wret[t].op = "produce_metrics" /\ wret[t].kind = "Ok"
        /\ wret[t].metrics[1].value = -1000
        /\ wret[t].metrics[2].value = 30

\* The mutex a caller of the YoloVideoProcessor is waiting for, by its holder
\* (NoThread when it waits for none or the mutex is free).
WaitsFor(t) ==
    CASE pc[t] \in {"init_lock", "proc_lock", "close_lock", "info_lock",
                    "metrics_sessions"} -> sessionsLock
      [] pc[t] \in {"init_stats", "proc_stats", "close_stats", "metrics_stats"}
           -> statsLock
      [] OTHER -> NoThread

\* C35: no state is reached in which two callers of one YoloVideoProcessor
\* each wait for a mutex (sessions, stats) the other holds.
C35_NoDeadlock ==
    ~ \E t, u \in Threads :
          /\ t # u
          /\ WaitsFor(t) = u
          /\ WaitsFor(u) = t

\* The frame counters of all sessions opened so far: those in the registry
\* and those close_session has removed.
OpenedFrames ==
    retired + SumOver([id \in DOMAIN sessions |-> sessions[id].frame_count],
                      DOMAIN sessions)

\* A process_session_chunk call is under way.
ChunkInFlight ==
    \E t \in Threads : pc[t] \in {"proc_lock", "proc_frame", "proc_track", "proc_stats"}

\* C37: total_frames_processed never decreases (closing a session included),
\* is at most the sum of the frame counters of all sessions opened so far,
\* live and closed, and equals that sum whenever no process_session_chunk
\* call is in flight.
C37_GlobalFramesFollowSessions ==
    /\ [](/\ stats.total_frames_processed <= OpenedFrames
          /\ ~ChunkInFlight => stats.total_frames_processed = OpenedFrames)
    /\ [][stats'.total_frames_processed >= stats.total_frames_processed]_vars

\* A session with frames was closed, another with frames is live, and no call
\* is under way.
C37_Witness ==
    /\ retired >= 1
    /\ \E id \in DOMAIN sessions : sessions[id].frame_count >= 1
    /\ \A t \in Threads : pc[t] = "idle"
    /\ stats.total_frames_processed = OpenedFrames

\* A chunk is counted in its session and not yet in the global counter.
C37_WitnessBehind ==
    /\ \E t \in Threads : pc[t] = "proc_stats"
    /\ stats.total_frames_processed < OpenedFrames

\* A call is inside process_frame on the session, holding the registry lock.
InProcessFrame(id) ==
    \E t \in Threads : pc[t] \in {"proc_frame", "proc_track"} /\ arg[t].id = id

\* The per-label tally of a session, summed.
TallySum(session) == SumOver(session.detected_objects, DOMAIN session.detected_objects)

\* C38: for every session in the registry, whenever no call is inside
\* process_frame on it under the registry lock, the per-label tally sums to
\* total_detections, and both are zero while frame_count is zero.
C38_TallySumsToDetections ==
    \A id \in DOMAIN sessions :
        ~InProcessFrame(id)
        => /\ TallySum(sessions[id]) = sessions[id].total_detections
           /\ sessions[id].frame_count = 0
                => /\ sessions[id].total_detections = 0
                   /\ TallySum(sessions[id]) = 0

\* One registered session has taken two frames and tallied a label twice,
\* another has taken none.
C38_Witness ==
    /\ \E id \in DOMAIN sessions :
          /\ sessions[id].frame_count >= 2
          /\ \E l \in DOMAIN sessions[id].detected_objects :
                sessions[id].detected_objects[l] >= 2
          /\ ~InProcessFrame(id)
    /\ \E id \in DOMAIN sessions : sessions[id].frame_count = 0

\* The steps of a process_session_chunk call, from its first lock to its return.
ChunkSteps == {"proc_lock", "proc_frame", "proc_track", "proc_stats"}

\* C39: a step of a process_session_chunk call on a session changes nothing
\* but that session's record and the global counters total_frames_processed
\* and total_detections: the records of the other sessions, the set of
\* registered ids, sessions_created and active_sessions stay as they are.
C39_ChunkTouchesOwnSessionOnly ==
    [][\A t \in Threads :
          (pc[t] \in ChunkSteps /\ pc'[t] # pc[t])
          => /\ DOMAIN sessions' = DOMAIN sessions
             /\ \A id \in DOMAIN sessions \ {arg[t].id} : sessions'[id] = sessions[id]
             /\ stats'.sessions_created = stats.sessions_created
             /\ stats'.active_sessions = stats.active_sessions]_vars

\* A chunk of one session was processed while the other session was
\* registered with frames of its own.
C39_Witness ==
    \E t \in Threads :
        /\ pc[t] = "idle"
        /\ ret[t].kind = "Ok" /\ ret[t].op = "process_session_chunk"
        /\ stats.total_frames_processed >= 2
        /\ DOMAIN sessions = Ids
        /\ \A id \in Ids : sessions[id].frame_count >= 1

\* Counters none of which was reset without the others: with no image
\* counted, no time and no detection is counted either.
WholeImgStats(st) ==
    st.images_processed = 0
    => st.total_processing_time_ms = 0 /\ st.detections_found = 0

\* C40: reset_stats zeroes images_processed, total_processing_time_ms and
\* detections_found in one step as far as concurrent process_chunk calls can
\* tell: while some are reset and others not the caller holds the stats lock
\* and no process_chunk is inside analyze_image's update, every value of the
\* counters a process_chunk reads is whole, and the call ends with all three
\* at zero whatever they were, so that a second reset_stats leaves the state
\* of the first.
C40_ResetAtomicAndIdempotent ==
    /\ [](\A t \in Threads :
             ipc[t] = "reset_stats"
             => /\ imgLock = t
                /\ \A u \in Threads \ {t} : ipc[u] \notin {"analyze_stats", "reset_stats"})
    /\ [](\A u \in Threads : ipc[u] = "analyze_stats" => WholeImgStats(ilocal[u].seen))
    /\ [][\A t \in Threads :
             (ipc[t] = "reset_stats" /\ ipc'[t] = "idle")
             => /\ imgStats' = DefaultImgStats
                /\ iret'[t] = ImgOk("execute_command")]_vars

\* A reset_stats is half done, a detection still counted, while a
\* process_chunk waits for the stats lock.
C40_Witness ==
    \E t, u \in Threads :
        /\ ipc[t] = "reset_stats"
        /\ imgStats.images_processed = 0 /\ imgStats.detections_found >= 1
        /\ ipc[u] = "analyze_lock"

\* Both callers' last call was a reset_stats that returned: the second one
\* found the counters at zero and left them there.
C40_WitnessTwice ==
    /\ \A t \in Threads : ipc[t] = "idle" /\ iret[t] = ImgOk("execute_command")
    /\ imgStats = DefaultImgStats

====
